---------------------------- MODULE Spec2Model ----------------------------
(***************************************************************************)
(* Model of the authoritative game-session engine of minesweeper-online    *)
(* (functions/minesweeper-api/src/main.js): the game documents kept in the *)
(* store, the request handlers that read, validate, compute and write      *)
(* them, and the board helpers they call.                                  *)
(*                                                                         *)
(* A handler is an async function: it awaits the document read, computes   *)
(* synchronously, then awaits the document write.  Other handlers may run  *)
(* between the read and the write, so a handler that passed validation is  *)
(* kept in `inflight` with the document it read until its write happens.   *)
(***************************************************************************)
EXTENDS Integers, Sequences, FiniteSets, TLC

\* ------------------------------------------------------------------ bounds
\* Width of the widest of the scaled-down difficulty presets.
BoardCols == 4
\* Number of users that may send requests; the first ones form the roster.
MaxUsers == 3
\* Number of handlers that may be between their read and their write.
MaxInFlight == 1
\* The clock stops after this many hours.
MaxNow == 5

\* --------------------------------------------------------------- constants
CellState == [HIDDEN |-> "hidden", REVEALED |-> "revealed", FLAGGED |-> "flagged"]
LobbyStatus == [WAITING |-> "waiting", FULL |-> "full", IN_GAME |-> "in_game", FINISHED |-> "finished"]
GameStatus == [WAITING |-> "waiting", PLAYING |-> "playing", FINISHED |-> "finished"]
GameMode == [CLASSIC |-> "classic", RACE |-> "race"]

\* The three presets, scaled down from 9x9 with 10 mines, 15x15 with 30
\* mines and 16x30 with 99 mines.
DIFFICULTY_PRESETS ==
    [EASY |-> [rows |-> 1, cols |-> BoardCols - 1, mines |-> 1],
     MEDIUM |-> [rows |-> 1, cols |-> BoardCols, mines |-> 1],
     HARD |-> [rows |-> 2, cols |-> BoardCols - 1, mines |-> 2]]

\* The cleanup thresholds, in hours.
STALE_LOBBY_MS == 2
STALE_GAME_MS == 4

\* The points a mine hit costs.
MinePenalty == 3

\* JavaScript null, and the ids ID.unique() gives the one lobby and its game.
Null == "null"
LobbyId == "L1"
GameId == "G1"

AllUsers == <<"p1", "p2", "p3", "p4", "p5", "p6">>
Users == {AllUsers[i] : i \in 1..MaxUsers}

Max(a, b) == IF a >= b THEN a ELSE b
Min(a, b) == IF a <= b THEN a ELSE b

\* ------------------------------------------------------------------ boards
\* A board is a function from <<row, col>> to a cell; the string key
\* `${row}-${col}` of an in-bounds cell is modelled by the pair itself.
Cells(rows, cols) == (0..(rows - 1)) \X (0..(cols - 1))

\* board.length and board[0].length.
NumRows(board) == Cardinality({x[1] : x \in DOMAIN board})
NumCols(board) == Cardinality({x[2] : x \in DOMAIN board})

createBoard(config) ==
    [x \in Cells(config.rows, config.cols) |->
        [isMine |-> FALSE, neighborMines |-> 0, state |-> CellState.HIDDEN]]

\* placeMines draws random cells until config.mines mines are placed; `draws`
\* is the stream of cells Math.random() yields.  A draw that is the first
\* cell or already a mine is skipped.
\* A loop that counts a draw of a cell that is already a mine.
RECURSIVE placeMinesLoop_Recount(_, _, _, _, _)
placeMinesLoop_Recount(nb, placed, config, first, draws) ==
    IF placed >= config.mines \/ draws = <<>> THEN [board |-> nb, placed |-> placed]
    ELSE LET d == Head(draws)
         IN  IF d = first
             THEN placeMinesLoop_Recount(nb, placed, config, first, Tail(draws))
             ELSE placeMinesLoop_Recount([nb EXCEPT ![d].isMine = TRUE], placed + 1,
                                         config, first, Tail(draws))

RECURSIVE placeMinesLoop(_, _, _, _, _)
placeMinesLoop(nb, placed, config, first, draws) ==
    IF placed >= config.mines \/ draws = <<>> THEN [board |-> nb, placed |-> placed]
    ELSE LET d == Head(draws)
         IN  IF d = first \/ nb[d].isMine
             THEN placeMinesLoop(nb, placed, config, first, Tail(draws))
             ELSE placeMinesLoop([nb EXCEPT ![d].isMine = TRUE], placed + 1,
                                 config, first, Tail(draws))

placeMines(board, config, firstRow, firstCol, draws) ==
    placeMinesLoop(board, 0, config, <<firstRow, firstCol>>, draws)

\* The neighbours taken in the row and the column of the cell only.
NeighborSeq_Cross(row, col, rows, cols) ==
    LET rs == Max(0, row - 1)..Min(rows - 1, row + 1)
        cs == Max(0, col - 1)..Min(cols - 1, col + 1)
        n  == Cardinality(cs)
        all == [i \in 1..(Cardinality(rs) * n) |->
                  <<Max(0, row - 1) + ((i - 1) \div n), Max(0, col - 1) + ((i - 1) % n)>>]
    IN  SelectSeq(all, LAMBDA x : x # <<row, col>> /\ (x[1] = row \/ x[2] = col))

\* The in-bounds Moore neighbours of a cell, in the order of the two for loops.
NeighborSeq(row, col, rows, cols) ==
    LET rs == Max(0, row - 1)..Min(rows - 1, row + 1)
        cs == Max(0, col - 1)..Min(cols - 1, col + 1)
        n  == Cardinality(cs)
        all == [i \in 1..(Cardinality(rs) * n) |->
                  <<Max(0, row - 1) + ((i - 1) \div n), Max(0, col - 1) + ((i - 1) % n)>>]
    IN  SelectSeq(all, LAMBDA x : x # <<row, col>>)

calculateNeighborMines(board) ==
    LET rows == NumRows(board)
        cols == NumCols(board)
        cnt(x) == Cardinality({i \in DOMAIN NeighborSeq(x[1], x[2], rows, cols) :
                                 board[NeighborSeq(x[1], x[2], rows, cols)[i]].isMine})
    IN  [x \in DOMAIN board |->
            IF board[x].isMine THEN board[x]
            ELSE [board[x] EXCEPT !.neighborMines = cnt(x)]]

\* The points taken as the bare neighbour count.
CellPoints_Raw(cell) == cell.neighborMines

\* The points a revealed safe cell is worth (the reducer of handleGameMove
\* and the loop of handleGameRaceMove).
CellPoints(cell) == IF cell.neighborMines = 0 THEN 1 ELSE cell.neighborMines

\* A reducer that pays every cascaded cell twice.
RECURSIVE SumPoints_Twice(_, _)
SumPoints_Twice(board, revealed) ==
    IF revealed = <<>> THEN 0
    ELSE 2 * CellPoints(board[Head(revealed)]) + SumPoints_Twice(board, Tail(revealed))

RECURSIVE SumPoints(_, _)
SumPoints(board, revealed) ==
    IF revealed = <<>> THEN 0
    ELSE CellPoints(board[Head(revealed)]) + SumPoints(board, Tail(revealed))

\* Neighbour loops that record a neighbour without marking it revealed.
RECURSIVE revealNeighbors_NoMark(_, _, _, _)
revealNeighbors_NoMark(board, toCheck, revealed, ns) ==
    IF ns = <<>> THEN [board |-> board, toCheck |-> toCheck, revealed |-> revealed]
    ELSE LET x == Head(ns)
             neighbor == board[x]
         IN  IF neighbor.state # CellState.REVEALED /\ ~neighbor.isMine
             THEN revealNeighbors_NoMark(
                      board,
                      IF neighbor.neighborMines = 0 THEN Append(toCheck, x) ELSE toCheck,
                      Append(revealed, x), Tail(ns))
             ELSE revealNeighbors_NoMark(board, toCheck, revealed, Tail(ns))

\* The body of the two for loops of revealEmptyCells for one popped cell:
\* every neighbour that is not revealed and not a mine is marked revealed
\* and recorded; a zero neighbour is pushed on toCheck.
RECURSIVE revealNeighbors(_, _, _, _)
revealNeighbors(board, toCheck, revealed, ns) ==
    IF ns = <<>> THEN [board |-> board, toCheck |-> toCheck, revealed |-> revealed]
    ELSE LET x == Head(ns)
             neighbor == board[x]
         IN  IF neighbor.state # CellState.REVEALED /\ ~neighbor.isMine
             THEN revealNeighbors(
                      [board EXCEPT ![x].state = CellState.REVEALED],
                      IF neighbor.neighborMines = 0 THEN Append(toCheck, x) ELSE toCheck,
                      Append(revealed, x), Tail(ns))
             ELSE revealNeighbors(board, toCheck, revealed, Tail(ns))

\* The while loop of revealEmptyCells: toCheck is a stack (pop takes the last
\* element).  A popped cell that is already revealed and is not the start
\* cell is skipped.  `processed` lists the popped cells that passed the
\* visited test, in order.
RECURSIVE revealLoop(_, _, _, _, _, _)
revealLoop(board, toCheck, visited, revealed, start, processed) ==
    IF toCheck = <<>> THEN [board |-> board, revealed |-> revealed, processed |-> processed]
    ELSE LET x == toCheck[Len(toCheck)]
             rest == SubSeq(toCheck, 1, Len(toCheck) - 1)
             cell == board[x]
             seen == Append(processed, x)
         IN  IF x \in visited THEN revealLoop(board, rest, visited, revealed, start, processed)
             ELSE IF cell.state = CellState.REVEALED /\ x # start
             THEN revealLoop(board, rest, visited \cup {x}, revealed, start, seen)
             ELSE IF cell.neighborMines = 0 /\ ~cell.isMine
             THEN LET s == revealNeighbors(board, rest, revealed,
                               NeighborSeq(x[1], x[2], NumRows(board), NumCols(board)))
                  IN  revealLoop(s.board, s.toCheck, visited \cup {x}, s.revealed, start, seen)
             ELSE revealLoop(board, rest, visited \cup {x}, revealed, start, seen)

\* revealEmptyCells mutates the board and returns the list of cells it
\* revealed; here it returns both, and the cells it processed.
revealEmptyCells(board, startRow, startCol) ==
    revealLoop(board, <<<<startRow, startCol>>>>, {}, <<>>, <<startRow, startCol>>, <<>>)

\* The dr/dc loops of raceRevealEmptyCells for one dequeued cell: the eight
\* offsets in order, each checked against the bounds and the visited set.
Offsets == <<<<-1, -1>>, <<-1, 0>>, <<-1, 1>>, <<0, -1>>, <<0, 1>>, <<1, -1>>, <<1, 0>>, <<1, 1>>>>

RECURSIVE raceNeighbors(_, _, _, _, _, _, _)
raceNeighbors(masterBoard, revealed, queue, visited, newRevealed, x, ds) ==
    IF ds = <<>> THEN [revealed |-> revealed, queue |-> queue, visited |-> visited,
                       newRevealed |-> newRevealed]
    ELSE LET n == <<x[1] + Head(ds)[1], x[2] + Head(ds)[2]>>
         IN  IF n \in DOMAIN masterBoard /\ n \notin visited
             THEN IF ~masterBoard[n].isMine /\ n \notin revealed
                  THEN raceNeighbors(masterBoard, revealed \cup {n},
                           IF masterBoard[n].neighborMines = 0 THEN Append(queue, n) ELSE queue,
                           visited \cup {n}, Append(newRevealed, n), x, Tail(ds))
                  ELSE raceNeighbors(masterBoard, revealed, queue, visited \cup {n},
                                     newRevealed, x, Tail(ds))
             ELSE raceNeighbors(masterBoard, revealed, queue, visited, newRevealed, x, Tail(ds))

\* The while loop of raceRevealEmptyCells: queue is a FIFO (shift takes the
\* first element).  `processed` lists the cells taken from the queue, in
\* order.
RECURSIVE raceLoop(_, _, _, _, _, _)
raceLoop(masterBoard, revealed, queue, visited, newRevealed, processed) ==
    IF queue = <<>> THEN [revealed |-> revealed, newRevealed |-> newRevealed,
                          processed |-> processed]
    ELSE LET x == Head(queue)
             seen == Append(processed, x)
         IN  IF masterBoard[x].neighborMines = 0 /\ ~masterBoard[x].isMine
             THEN LET s == raceNeighbors(masterBoard, revealed, Tail(queue), visited,
                                         newRevealed, x, Offsets)
                  IN  raceLoop(masterBoard, s.revealed, s.queue, s.visited, s.newRevealed, seen)
             ELSE raceLoop(masterBoard, revealed, Tail(queue), visited, newRevealed, seen)

\* raceRevealEmptyCells adds to the caller's revealed set and returns the
\* list of cells it added; here it returns both, and the cells it processed.
raceRevealEmptyCells(masterBoard, revealed, startRow, startCol) ==
    raceLoop(masterBoard, revealed, <<<<startRow, startCol>>>>, {<<startRow, startCol>>},
             <<>>, <<>>)

\* A game-over test that waits for the mines to be revealed too.
checkGameOver_AllCells(board) ==
    \A x \in DOMAIN board : board[x].state = CellState.REVEALED

checkGameOver(board) ==
    \A x \in DOMAIN board : board[x].isMine \/ board[x].state = CellState.REVEALED

buildSafeBoard(board, gameOver) ==
    [x \in DOMAIN board |->
        IF gameOver \/ board[x].state = CellState.REVEALED THEN board[x]
        ELSE [isMine |-> FALSE, neighborMines |-> 0, state |-> board[x].state]]

buildSafeBoardForRace(masterBoard, revealed, gameOver) ==
    [x \in DOMAIN masterBoard |->
        IF gameOver \/ x \in revealed THEN masterBoard[x]
        ELSE [isMine |-> FALSE, neighborMines |-> 0, state |-> "hidden"]]


\* ------------------------------------------------------------------- state
VARIABLES
    lobbies,    \* the lobbies collection: lobby id -> document
    games,      \* the games collection: game id -> document (and, in the
                \* secure variant, the private board under BoardDocId)
    inflight,   \* handlers that have read and validated, and not yet written
    response,   \* the last response a handler sent
    personal,   \* per user, the cells that user's answered race moves revealed
    now         \* the clock, in hours

vars == <<lobbies, games, inflight, response, personal, now>>

\* updateDocument(id, data): the fields of data replace those of the stored
\* document, the others are kept.
Merge(doc, data) == [f \in DOMAIN doc |-> IF f \in DOMAIN data THEN data[f] ELSE doc[f]]

\* deleteDocument inside try/catch: deleting an absent document is swallowed.
Without(coll, id) == [k \in DOMAIN coll \ {id} |-> coll[k]]

Reject(op, userId, code, error) ==
    [op |-> op, userId |-> userId, ok |-> FALSE, code |-> code, error |-> error]

\* players.findIndex(p => p.id === userId), 0 when absent.
PlayerIndex(players, userId) ==
    IF \E i \in DOMAIN players : players[i].id = userId
    THEN CHOOSE i \in DOMAIN players : players[i].id = userId /\ \A j \in 1..(i - 1) : players[j].id # userId
    ELSE 0

\* gamePlayers.find(p => p.id === id)?.score || 0
ScoreOf(players, id) ==
    IF PlayerIndex(players, id) = 0 THEN 0 ELSE players[PlayerIndex(players, id)].score

MaxScore(players) ==
    CHOOSE m \in {players[i].score : i \in DOMAIN players} :
        \A i \in DOMAIN players : players[i].score <= m

\* winners.length === 1 ? winners[0].id : 'draw'
TopPlayer(players) ==
    LET winners == SelectSeq(players, LAMBDA p : p.score = MaxScore(players))
    IN  IF Len(winners) = 1 THEN winners[1].id ELSE "draw"


\* ------------------------------------------------------------- game: start
\* The draws placeMines may consume: enough of them to place every mine.
DrawSeqs(config) ==
    UNION {[1..k -> Cells(config.rows, config.cols)] : k \in config.mines..(config.mines + 1)}

\* A game document that gives the first turn to the host in every mode.
gameData_HostTurn(lobby, lobbyId, board, config, time) ==
    LET lobbyPlayers == lobby.players
        gamePlayers == [i \in DOMAIN lobbyPlayers |-> [id |-> lobbyPlayers[i], score |-> 0]]
        turnOrder == <<lobby.hostId>> \o SelectSeq(lobbyPlayers, LAMBDA p : p # lobby.hostId)
    IN  [lobbyId |-> lobbyId, board |-> board, players |-> gamePlayers,
         turnOrder |-> turnOrder, currentTurnIndex |-> 0,
         hostId |-> lobby.hostId, hostScore |-> 0,
         guestId |-> IF Len(lobbyPlayers) > 1 THEN lobbyPlayers[2] ELSE "",
         guestScore |-> 0,
         currentTurn |-> lobby.hostId,
         status |-> GameStatus.PLAYING, winnerId |-> Null,
         minesRevealed |-> 0, totalMines |-> config.mines,
         gameMode |-> lobby.gameMode, hostBoard |-> {}, guestBoard |-> {},
         startTime |-> time, hostFinished |-> FALSE, guestFinished |-> FALSE]

\* The game document handleGameStart creates from the lobby it read.
gameData(lobby, lobbyId, board, config, time) ==
    LET lobbyPlayers == lobby.players
        gamePlayers == [i \in DOMAIN lobbyPlayers |-> [id |-> lobbyPlayers[i], score |-> 0]]
        turnOrder == <<lobby.hostId>> \o SelectSeq(lobbyPlayers, LAMBDA p : p # lobby.hostId)
    IN  [lobbyId |-> lobbyId, board |-> board, players |-> gamePlayers,
         turnOrder |-> turnOrder, currentTurnIndex |-> 0,
         hostId |-> lobby.hostId, hostScore |-> 0,
         guestId |-> IF Len(lobbyPlayers) > 1 THEN lobbyPlayers[2] ELSE "",
         guestScore |-> 0,
         currentTurn |-> IF lobby.gameMode = GameMode.RACE THEN "" ELSE lobby.hostId,
         status |-> GameStatus.PLAYING, winnerId |-> Null,
         minesRevealed |-> 0, totalMines |-> config.mines,
         gameMode |-> lobby.gameMode, hostBoard |-> {}, guestBoard |-> {},
         startTime |-> time, hostFinished |-> FALSE, guestFinished |-> FALSE]

\* A start that does not ask for a full lobby.
GameStart_AnyRoster(userId, lobbyId) ==
    IF lobbyId \notin DOMAIN lobbies
    THEN /\ response' = Reject("start", userId, 500, "Document not found")
         /\ UNCHANGED <<lobbies, games, inflight, personal, now>>
    ELSE
       LET lobby == lobbies[lobbyId]
           config == DIFFICULTY_PRESETS[lobby.difficulty]
       IN  IF lobby.hostId # userId
           THEN /\ response' = Reject("start", userId, 403, "Only the host can start the game")
                /\ UNCHANGED <<lobbies, games, inflight, personal, now>>
           ELSE \E first \in Cells(config.rows, config.cols), draws \in DrawSeqs(config) :
                LET placed == placeMines(createBoard(config), config, first[1], first[2], draws)
                    board == calculateNeighborMines(placed.board)
                    doc == gameData(lobby, lobbyId, board, config, now)
                IN  /\ GameId \notin DOMAIN games
                    /\ placed.placed = config.mines
                    /\ games' = (GameId :> doc) @@ games
                    /\ lobbies' = [lobbies EXCEPT ![lobbyId] =
                                      Merge(@, [gameId |-> GameId, status |-> LobbyStatus.IN_GAME])]
                    /\ response' = [op |-> "start", userId |-> userId, ok |-> TRUE, code |-> 200,
                                    board |-> buildSafeBoard(board, FALSE),
                                    players |-> doc.players, currentTurn |-> doc.currentTurn,
                                    status |-> doc.status]
                    /\ UNCHANGED <<inflight, personal, now>>

\* handleGameStart on the lobby the body names.  The lobby read, the game
\* creation and the lobby update are taken as one step.  A missing lobby
\* makes getDocument throw, which the handler answers with 500.  One game id
\* is available, so a start that passes validation needs it unused.
GameStart(userId, lobbyId) ==
    IF lobbyId \notin DOMAIN lobbies
    THEN /\ response' = Reject("start", userId, 500, "Document not found")
         /\ UNCHANGED <<lobbies, games, inflight, personal, now>>
    ELSE
       LET lobby == lobbies[lobbyId]
           config == DIFFICULTY_PRESETS[lobby.difficulty]
       IN  IF lobby.hostId # userId
           THEN /\ response' = Reject("start", userId, 403, "Only the host can start the game")
                /\ UNCHANGED <<lobbies, games, inflight, personal, now>>
           ELSE IF lobby.status # LobbyStatus.FULL
           THEN /\ response' = Reject("start", userId, 400, "Lobby is not full")
                /\ UNCHANGED <<lobbies, games, inflight, personal, now>>
           ELSE \E first \in Cells(config.rows, config.cols), draws \in DrawSeqs(config) :
                LET placed == placeMines(createBoard(config), config, first[1], first[2], draws)
                    board == calculateNeighborMines(placed.board)
                    doc == gameData(lobby, lobbyId, board, config, now)
                IN  /\ GameId \notin DOMAIN games
                    /\ placed.placed = config.mines
                    /\ games' = (GameId :> doc) @@ games
                    /\ lobbies' = [lobbies EXCEPT ![lobbyId] =
                                      Merge(@, [gameId |-> GameId, status |-> LobbyStatus.IN_GAME])]
                    /\ response' = [op |-> "start", userId |-> userId, ok |-> TRUE, code |-> 200,
                                    board |-> buildSafeBoard(board, FALSE),
                                    players |-> doc.players, currentTurn |-> doc.currentTurn,
                                    status |-> doc.status]
                    /\ UNCHANGED <<inflight, personal, now>>

\* The start of the one lobby of a game session, before its game exists.
handleGameStart(userId) ==
    /\ LobbyId \in DOMAIN lobbies
    /\ GameId \notin DOMAIN games
    /\ GameStart(userId, LobbyId)

\* -------------------------------------------------------- game: move (classic)
\* A turn check that only asks whether the caller is on the roster.
NotYourTurn_AnyPlayer(game, userId) == PlayerIndex(game.players, userId) = 0

\* game.currentTurn !== userId
NotYourTurn(game, userId) == game.currentTurn # userId

\* The penalty without its floor at zero.
MineHitScore_NoFloor(score) == score - MinePenalty

\* The floor applied to the score before the penalty is taken off.
MineHitScore_FloorFirst(score) == Max(0, score) - MinePenalty

\* Math.max(0, score - 3)
MineHitScore(score) == Max(0, score - MinePenalty)

\* (currentTurnIndex + 1) % turnOrder.length
NextTurnIndex(currentTurnIndex, turnOrder) == (currentTurnIndex + 1) % Len(turnOrder)

\* What handleGameMove decides from the game document it read: a rejection,
\* or the fields it will write and the body it will answer with.
MoveOutcome(game, userId, row, col) ==
    IF game.status # GameStatus.PLAYING
    THEN Reject("move", userId, 400, "Game is not in playing state")
    ELSE IF game.gameMode = "race"
    THEN Reject("move", userId, 400, "Use /game/race-move for race mode")
    ELSE IF NotYourTurn(game, userId)
    THEN Reject("move", userId, 403, "Not your turn")
    ELSE IF PlayerIndex(game.players, userId) = 0
    THEN Reject("move", userId, 403, "You are not a player in this game")
    ELSE IF row < 0 \/ row >= NumRows(game.board) \/ col < 0 \/ col >= NumCols(game.board)
    THEN Reject("move", userId, 400, "Invalid coordinates")
    ELSE IF game.board[<<row, col>>].state = CellState.REVEALED
    THEN Reject("move", userId, 400, "Cell is already revealed")
    ELSE
    LET currentPlayerIndex == PlayerIndex(game.players, userId)
        cell == game.board[<<row, col>>]
        board1 == [game.board EXCEPT ![<<row, col>>].state = CellState.REVEALED]
        turnOrder == game.turnOrder
        currentTurnIndex == game.currentTurnIndex
        score == game.players[currentPlayerIndex].score
        cascade == IF ~cell.isMine /\ cell.neighborMines = 0
                   THEN revealEmptyCells(board1, row, col)
                   ELSE [board |-> board1, revealed |-> <<>>]
        board == cascade.board
        newScore == IF cell.isMine THEN MineHitScore(score)
                    ELSE score + CellPoints(cell) + SumPoints(board, cascade.revealed)
        gamePlayers == [game.players EXCEPT ![currentPlayerIndex].score = newScore]
        nextTurnIndex == IF cell.isMine /\ Len(turnOrder) > 0
                         THEN NextTurnIndex(currentTurnIndex, turnOrder)
                         ELSE currentTurnIndex
        nextTurn == IF cell.isMine
                    THEN IF Len(turnOrder) > 0 THEN turnOrder[nextTurnIndex + 1]
                         ELSE IF userId = game.hostId THEN game.guestId ELSE game.hostId
                    ELSE userId
        newMinesRevealed == IF cell.isMine THEN game.minesRevealed + 1 ELSE game.minesRevealed
        gameOver == checkGameOver(board)
        status == IF gameOver THEN GameStatus.FINISHED ELSE game.status
        winnerId == IF gameOver THEN TopPlayer(gamePlayers) ELSE Null
        hostScore == ScoreOf(gamePlayers, game.hostId)
        guestScore == ScoreOf(gamePlayers, game.guestId)
    IN  [op |-> "move", userId |-> userId, ok |-> TRUE, code |-> 200,
         update |-> [board |-> board, players |-> gamePlayers,
                     currentTurnIndex |-> nextTurnIndex,
                     hostScore |-> hostScore, guestScore |-> guestScore,
                     currentTurn |-> nextTurn, status |-> status, winnerId |-> winnerId,
                     minesRevealed |-> newMinesRevealed],
         gameOver |-> gameOver,
         board |-> buildSafeBoard(board, gameOver),
         players |-> gamePlayers, currentTurn |-> nextTurn,
         currentTurnIndex |-> nextTurnIndex, status |-> status, winnerId |-> winnerId,
         minesRevealed |-> newMinesRevealed]


\* ----------------------------------------------------------- game: race move
\* The host's revealed set used for every caller.
RevealedOf_Host(game, userId) == game.hostBoard

\* The revealed set, score and finished flag handleGameRaceMove uses for a
\* caller: the host's fields for the host, the guest's fields for anyone else.
RevealedOf(game, userId) == IF userId = game.hostId THEN game.hostBoard ELSE game.guestBoard
RaceScoreOf(game, userId) == IF userId = game.hostId THEN game.hostScore ELSE game.guestScore
FinishedOf(game, userId) == IF userId = game.hostId THEN game.hostFinished ELSE game.guestFinished

\* A completion check with a strict comparison.
raceFinished_Strict(masterBoard, revealed) ==
    LET totalSafe == Cardinality({x \in DOMAIN masterBoard : ~masterBoard[x].isMine})
        revealedSafe == Cardinality({x \in DOMAIN masterBoard :
                                        ~masterBoard[x].isMine /\ x \in revealed})
    IN  revealedSafe > totalSafe

\* The completion check: revealedSafe >= totalSafe.
raceFinished(masterBoard, revealed) ==
    LET totalSafe == Cardinality({x \in DOMAIN masterBoard : ~masterBoard[x].isMine})
        revealedSafe == Cardinality({x \in DOMAIN masterBoard :
                                        ~masterBoard[x].isMine /\ x \in revealed})
    IN  revealedSafe >= totalSafe

\* What handleGameRaceMove decides from the game document it read.
RaceOutcome(game, userId, row, col) ==
    IF game.status # GameStatus.PLAYING
    THEN Reject("raceMove", userId, 400, "Game is not in playing state")
    ELSE IF game.gameMode # "race"
    THEN Reject("raceMove", userId, 400, "Use /game/move for classic mode")
    ELSE IF PlayerIndex(game.players, userId) = 0
    THEN Reject("raceMove", userId, 403, "You are not a player in this game")
    ELSE IF row < 0 \/ row >= NumRows(game.board) \/ col < 0 \/ col >= NumCols(game.board)
    THEN Reject("raceMove", userId, 400, "Invalid coordinates")
    ELSE IF <<row, col>> \in RevealedOf(game, userId)
    THEN Reject("raceMove", userId, 400, "Cell already revealed")
    ELSE IF FinishedOf(game, userId)
    THEN Reject("raceMove", userId, 400, "You already finished")
    ELSE
    LET masterBoard == game.board
        isHost == userId = game.hostId
        key == <<row, col>>
        cell == masterBoard[key]
        revealed1 == RevealedOf(game, userId) \cup {key}
        cascade == IF ~cell.isMine /\ cell.neighborMines = 0
                   THEN raceRevealEmptyCells(masterBoard, revealed1, row, col)
                   ELSE [revealed |-> revealed1, newRevealed |-> <<>>]
        revealed == cascade.revealed
        currentScore == IF cell.isMine THEN MineHitScore(RaceScoreOf(game, userId))
                        ELSE RaceScoreOf(game, userId) + CellPoints(cell)
                             + SumPoints(masterBoard, cascade.newRevealed)
        finished == raceFinished(masterBoard, revealed)
        own == IF isHost THEN [hostBoard |-> revealed, hostScore |-> currentScore]
               ELSE [guestBoard |-> revealed, guestScore |-> currentScore]
        flag == IF ~finished THEN <<>>
                ELSE IF isHost THEN [hostFinished |-> TRUE] ELSE [guestFinished |-> TRUE]
        won == IF finished /\ game.status = GameStatus.PLAYING
               THEN [status |-> GameStatus.FINISHED, winnerId |-> userId] ELSE <<>>
        updateData == own @@ flag @@ won
    IN  [op |-> "raceMove", userId |-> userId, ok |-> TRUE, code |-> 200,
         update |-> updateData,
         gameOver |-> finished,
         board |-> buildSafeBoardForRace(masterBoard, revealed,
                       finished \/ ("status" \in DOMAIN updateData
                                    /\ updateData.status = GameStatus.FINISHED)),
         revealed |-> revealed, score |-> currentScore, finished |-> finished,
         status |-> IF "status" \in DOMAIN updateData THEN updateData.status ELSE game.status,
         winnerId |-> IF "winnerId" \in DOMAIN updateData THEN updateData.winnerId
                      ELSE game.winnerId]

\* ---------------------------------------------------------------- game: leave
\* What handleGameLeave decides from the game document it read.
LeaveOutcome(game, userId) ==
    IF game.status # GameStatus.PLAYING
    THEN Reject("leave", userId, 400, "Game is not in playing state")
    ELSE IF PlayerIndex(game.players, userId) = 0
    THEN Reject("leave", userId, 403, "You are not a player in this game")
    ELSE
    LET otherPlayers == SelectSeq(game.players, LAMBDA p : p.id # userId)
        winnerId == IF Len(otherPlayers) = 1 THEN otherPlayers[1].id
                    ELSE TopPlayer(otherPlayers)
    IN  [op |-> "leave", userId |-> userId, ok |-> TRUE, code |-> 200,
         update |-> [status |-> GameStatus.FINISHED, winnerId |-> winnerId],
         gameOver |-> TRUE,
         winnerId |-> winnerId]

\* ------------------------------------------------------------ handler steps
Outcome(op, game, userId, row, col) ==
    IF op = "move" THEN MoveOutcome(game, userId, row, col)
    ELSE IF op = "raceMove" THEN RaceOutcome(game, userId, row, col)
    ELSE LeaveOutcome(game, userId)

\* A write that stores the document the handler read with its changes,
\* rather than the changed fields only.
Apply_WholeDocument(p) ==
    LET out == Outcome(p.op, p.game, p.userId, p.row, p.col)
    IN  /\ GameId \in DOMAIN games
        /\ games' = [games EXCEPT ![GameId] = Merge(p.game, out.update)]
        /\ lobbies' = IF out.gameOver THEN Without(lobbies, p.game.lobbyId) ELSE lobbies
        /\ response' = [f \in DOMAIN out \ {"update"} |-> out[f]]
                        @@ [row |-> p.row, col |-> p.col]

\* What a handler that passed validation does after its computation: its
\* updateDocument, its best-effort deleteDocument of the lobby when the game
\* ended, and its answer.  p holds the request and the document the handler
\* read.
Apply(p) ==
    LET out == Outcome(p.op, p.game, p.userId, p.row, p.col)
    IN  /\ GameId \in DOMAIN games
        /\ games' = [games EXCEPT ![GameId] = Merge(@, out.update)]
        /\ lobbies' = IF out.gameOver THEN Without(lobbies, p.game.lobbyId) ELSE lobbies
        /\ response' = [f \in DOMAIN out \ {"update"} |-> out[f]]
                        @@ [row |-> p.row, col |-> p.col]

Request(op, userId, row, col) ==
    [op |-> op, userId |-> userId, row |-> row, col |-> col, game |-> games[GameId]]

\* A handler that marks the cell revealed before it validates the request.
Refuse_AfterWrite(op, userId, row, col) ==
    /\ GameId \in DOMAIN games
    /\ ~Outcome(op, games[GameId], userId, row, col).ok
    /\ response' = Outcome(op, games[GameId], userId, row, col)
    /\ games' = IF <<row, col>> \in DOMAIN games[GameId].board
                THEN [games EXCEPT ![GameId].board[<<row, col>>].state = CellState.REVEALED]
                ELSE games
    /\ UNCHANGED <<lobbies, inflight, now>>

\* A request that fails validation is answered and nothing is written.  A
\* missing game makes getDocument throw, which the handler answers with 500.
Refuse(op, userId, row, col) ==
    /\ IF GameId \notin DOMAIN games
       THEN response' = Reject(op, userId, 500, "Document not found")
       ELSE /\ ~Outcome(op, games[GameId], userId, row, col).ok
            /\ response' = Outcome(op, games[GameId], userId, row, col)
    /\ UNCHANGED <<lobbies, games, inflight, now>>

\* A request that passes validation, with no other handler running between
\* the handler's read and its write: it is applied to the document just read.
Accept(op, userId, row, col) ==
    /\ GameId \in DOMAIN games
    /\ Outcome(op, games[GameId], userId, row, col).ok
    /\ Apply(Request(op, userId, row, col))
    /\ UNCHANGED <<inflight, now>>

Handle(op, userId, row, col) ==
    \/ Refuse(op, userId, row, col)
    \/ Accept(op, userId, row, col)

\* A whole handler, from its read to its answer.
handleGameMove(userId, row, col) ==
    Handle("move", userId, row, col) /\ UNCHANGED personal
handleGameRaceMove(userId, row, col) ==
    Handle("raceMove", userId, row, col) /\ UNCHANGED personal
handleGameLeave(userId) ==
    Handle("leave", userId, 0, 0) /\ UNCHANGED personal

\* The same handlers with their await points: Read is the handler up to its
\* validation (getDocument and the synchronous checks), after which a valid
\* request is in flight with the document it read; Write is the rest, run
\* at any later time, whatever other handlers wrote in between.
Read(op, userId, row, col) ==
    /\ GameId \in DOMAIN games
    /\ Outcome(op, games[GameId], userId, row, col).ok
    /\ Cardinality(inflight) < MaxInFlight
    /\ inflight' = inflight \cup {Request(op, userId, row, col)}
    /\ UNCHANGED <<lobbies, games, response, personal, now>>

Write(p) ==
    /\ p.op \in {"move", "raceMove", "leave"}
    /\ Apply(p)
    /\ inflight' = inflight \ {p}
    /\ UNCHANGED <<personal, now>>

\* handleGameRaceMove with the record of who revealed what: the cells the
\* answered move added to the revealed set the handler read for its caller
\* are added to the caller's entry of `personal`.
TrackedRaceMove(userId, row, col) ==
    /\ Handle("raceMove", userId, row, col)
    /\ personal' =
          IF response'.ok
          THEN [personal EXCEPT ![userId] =
                   @ \cup (response'.revealed \ RevealedOf(games[GameId], userId))]
          ELSE personal

\* ------------------------------------------------------------------ cleanup
\* An age compared in seconds with a threshold in milliseconds.
Stale_Seconds(since, threshold) == (now - since) \div 1000 > threshold

\* now - new Date(doc.createdAt | doc.startTime).getTime() > threshold
Stale(since, threshold) == now - since > threshold

\* Query.limit(100), scaled to the collections explored.
QUERY_LIMIT == 1

\* What listDocuments may return of the documents matching its query: all
\* of them up to the limit, and no more than the limit of them.
Listed(matching) ==
    {page \in SUBSET matching : Cardinality(page) = Min(Cardinality(matching), QUERY_LIMIT)}

\* handleCleanup up to its listing of the active games: of the waiting or
\* full lobbies listed the stale are deleted, and the stale games among
\* those listed as playing are the ones the handler goes on to force-finish.
\* Every age is measured from the time read when the handler started.
handleCleanup ==
    /\ Cardinality(inflight) < MaxInFlight
    /\ \E staleLobbies \in Listed({l \in DOMAIN lobbies :
                                     lobbies[l].status \in {LobbyStatus.WAITING, LobbyStatus.FULL}}),
          activeGames \in Listed({g \in DOMAIN games : games[g].status = GameStatus.PLAYING}) :
          /\ lobbies' = [id \in {l \in DOMAIN lobbies :
                                   ~(l \in staleLobbies
                                     /\ Stale(lobbies[l].createdAt, STALE_LOBBY_MS))}
                            |-> lobbies[id]]
          /\ inflight' = inflight \cup
                {[op |-> "cleanup", now |-> now,
                  activeGames |-> {g \in activeGames :
                                     Stale(games[g].startTime, STALE_GAME_MS)}]}
    /\ UNCHANGED <<games, response, personal, now>>

\* The lobbies the orphan pass deletes: in_game lobbies without a game id,
\* or whose game is missing or finished.
Orphans(ls, gs) ==
    {l \in DOMAIN ls :
        /\ ls[l].status = LobbyStatus.IN_GAME
        /\ \/ ls[l].gameId = Null
           \/ ls[l].gameId \notin DOMAIN gs
           \/ gs[ls[l].gameId].status = GameStatus.FINISHED}

\* The rest of handleCleanup: each listed stale game is written finished
\* with winnerId 'timeout' and its lobby deleted, then the orphan pass runs
\* on the in_game lobbies it lists.
handleCleanupWrite(p) ==
    /\ p.op = "cleanup"
    /\ LET hit == p.activeGames \cap DOMAIN games
           gs == [g \in DOMAIN games |->
                     IF g \in hit
                     THEN Merge(games[g], [status |-> GameStatus.FINISHED, winnerId |-> "timeout"])
                     ELSE games[g]]
           ls == [l \in DOMAIN lobbies \ {games[g].lobbyId : g \in hit} |-> lobbies[l]]
       IN  \E inGameLobbies \in Listed({l \in DOMAIN ls : ls[l].status = LobbyStatus.IN_GAME}) :
           /\ games' = gs
           /\ lobbies' = [l \in DOMAIN ls \ (Orphans(ls, gs) \cap inGameLobbies) |-> ls[l]]
           /\ response' = [op |-> "cleanup", userId |-> "", ok |-> TRUE, code |-> 200,
                           finishedGames |-> Cardinality(hit)]
    /\ inflight' = inflight \ {p}
    /\ UNCHANGED <<personal, now>>

Tick ==
    /\ now < MaxNow
    /\ now' = now + 1
    /\ UNCHANGED <<lobbies, games, inflight, response, personal>>

\* ------------------------------------------------------------ specification
\* A full lobby of the first n users, hosted by the first, about to be
\* started by its host.
FullLobby(n, setup) ==
    [status |-> LobbyStatus.FULL, hostId |-> AllUsers[1],
     players |-> SubSeq(AllUsers, 1, n), maxPlayers |-> n,
     gameMode |-> setup.gameMode, difficulty |-> setup.difficulty,
     gameId |-> Null, createdAt |-> 0]

\* The classic lobbies explored: two to MaxUsers players on the one-mine
\* presets, two players on the two-mine preset.
Setups ==
    {[n |-> n, gameMode |-> GameMode.CLASSIC, difficulty |-> d] :
        n \in 2..MaxUsers, d \in {"EASY", "MEDIUM"}}
    \cup {[n |-> 2, gameMode |-> GameMode.CLASSIC, difficulty |-> "HARD"]}

Init ==
    /\ \E setup \in Setups : lobbies = (LobbyId :> FullLobby(setup.n, setup))
    /\ games = <<>>
    /\ inflight = {}
    /\ response = Reject("none", "", 0, "")
    /\ personal = [u \in Users |-> {}]
    /\ now = 0

\* The coordinates requests carry: every cell of the board, and one cell
\* beyond each of its four edges.
Coords ==
    IF GameId \notin DOMAIN games THEN {<<0, 0>>}
    ELSE LET rows == NumRows(games[GameId].board)
             cols == NumCols(games[GameId].board)
         IN  Cells(rows, cols) \cup {<<-1, 0>>, <<rows, 0>>, <<0, -1>>, <<0, cols>>}

Next ==
    \/ \E u \in Users : handleGameStart(u)
    \/ \E u \in Users, x \in Coords : handleGameMove(u, x[1], x[2])
    \/ \E u \in Users, x \in Coords : handleGameRaceMove(u, x[1], x[2])
    \/ \E u \in Users : handleGameLeave(u)

\* The requests made on classic games.
NextClassic ==
    \/ \E u \in Users : handleGameStart(u)
    \/ \E u \in Users, x \in Coords : handleGameMove(u, x[1], x[2])
    \/ \E u \in Users : handleGameLeave(u)

Spec == Init /\ [][NextClassic]_vars

\* Race games with the record of who revealed what.
InitView ==
    /\ \E n \in 2..MaxUsers :
           lobbies = (LobbyId :> FullLobby(n, [gameMode |-> GameMode.RACE, difficulty |-> "EASY"]))
    /\ games = <<>>
    /\ inflight = {}
    /\ response = Reject("none", "", 0, "")
    /\ personal = [u \in Users |-> {}]
    /\ now = 0

NextView ==
    \/ \E u \in Users : handleGameStart(u)
    \/ \E u \in Users, x \in Coords : handleGameMove(u, x[1], x[2])
    \/ \E u \in Users, x \in Coords : TrackedRaceMove(u, x[1], x[2])
    \/ \E u \in Users : handleGameLeave(u)

SpecView == InitView /\ [][NextView]_vars

\* The handlers of one two-player game on the smallest preset, running
\* concurrently: up to MaxInFlight handlers are between their read and their
\* write while others run from read to write.  Requests that fail validation
\* write nothing and are left out.
InitConc ==
    /\ \E mode \in {GameMode.CLASSIC, GameMode.RACE} :
           lobbies = (LobbyId :> FullLobby(2, [gameMode |-> mode, difficulty |-> "EASY"]))
    /\ games = <<>>
    /\ inflight = {}
    /\ response = Reject("none", "", 0, "")
    /\ personal = [u \in Users |-> {}]
    /\ now = 0

\* The requests that name a cell.
Ops == {"move", "raceMove"}

NextConc ==
    \/ \E u \in Users : handleGameStart(u)
    \/ \E op \in Ops, u \in Users, x \in Coords :
           Accept(op, u, x[1], x[2]) /\ UNCHANGED personal
    \/ \E u \in Users : Accept("leave", u, 0, 0) /\ UNCHANGED personal
    \/ \E op \in Ops, u \in Users, x \in Coords : Read(op, u, x[1], x[2])
    \/ \E u \in Users : Read("leave", u, 0, 0)
    \/ \E p \in inflight : Write(p)

SpecConc == InitConc /\ [][NextConc]_vars

\* The whole handlers of one two-player game on the smallest preset, with
\* the clock and the cleanup among them.
InitReap ==
    /\ \E mode \in {GameMode.CLASSIC, GameMode.RACE} :
           lobbies = (LobbyId :> FullLobby(2, [gameMode |-> mode, difficulty |-> "EASY"]))
    /\ games = <<>>
    /\ inflight = {}
    /\ response = Reject("none", "", 0, "")
    /\ personal = [u \in Users |-> {}]
    /\ now = 0

NextReap ==
    \/ \E u \in Users : handleGameStart(u)
    \/ \E op \in Ops, u \in Users, x \in Coords :
           Accept(op, u, x[1], x[2]) /\ UNCHANGED personal
    \/ \E u \in Users : Accept("leave", u, 0, 0) /\ UNCHANGED personal
    \/ Tick
    \/ handleCleanup
    \/ \E p \in inflight : handleCleanupWrite(p)

SpecReap == InitReap /\ [][NextReap]_vars

\* Games of either mode on the smallest preset, every handler run whole.
InitModes ==
    /\ \E n \in 2..MaxUsers, mode \in {GameMode.CLASSIC, GameMode.RACE} :
           lobbies = (LobbyId :> FullLobby(n, [gameMode |-> mode, difficulty |-> "EASY"]))
    /\ games = <<>>
    /\ inflight = {}
    /\ response = Reject("none", "", 0, "")
    /\ personal = [u \in Users |-> {}]
    /\ now = 0

SpecModes == InitModes /\ [][Next]_vars

\* ------------------------------------------------------------------ lobbies
\* Number of lobby ids ID.unique() can give.
MaxLobbies == 1

AllLobbyIds == <<"L1", "L2", "L3">>
LobbyIds == {AllLobbyIds[i] : i \in 1..MaxLobbies}

VALID_DIFFICULTIES == {"EASY", "MEDIUM", "HARD"}
VALID_GAME_MODES == {"classic", "race"}

\* password.trim(), on the passwords requests carry.
Trim(password) == IF password = " " THEN "" ELSE password

\* sha256(password + salt) as a hex digest: equal exactly for equal inputs.
Hash(password, salt) == <<"sha256", password, salt>>

\* crypto.randomBytes(16).toString('hex')
Salts == {"a1"}

\* Math.min(Math.max(parseInt(maxPlayers) || 2, 2), 4)
ClampPlayers(maxPlayers) == Min(Max(IF maxPlayers = 0 THEN 2 ELSE maxPlayers, 2), 4)

\* The scan of the waiting and full lobbies for one the user hosts or is in,
\* the lobbies in `skip` left out.
InLobby(userId, ls, skip) ==
    \E l \in DOMAIN ls \ skip :
        /\ ls[l].status \in {LobbyStatus.WAITING, LobbyStatus.FULL}
        /\ \/ ls[l].hostId = userId
           \/ \E i \in DOMAIN ls[l].players : ls[l].players[i] = userId

\* The lobby document handleLobbyCreate creates.
lobbyData(userId, body, salt, time) ==
    LET hashed == Trim(body.password) # ""
    IN  [password |-> IF hashed THEN Hash(body.password, salt) ELSE "",
         passwordSalt |-> IF hashed THEN salt ELSE "",
         hostId |-> userId,
         maxPlayers |-> ClampPlayers(body.maxPlayers),
         players |-> <<userId>>,
         guestId |-> Null,
         status |-> LobbyStatus.WAITING,
         difficulty |-> body.difficulty,
         gameMode |-> body.gameMode,
         createdAt |-> time,
         gameId |-> Null]

\* The lobby ids handlers between their read and their write hold.
PendingLobbyIds == {p.lobbyId : p \in {q \in inflight : q.op \in {"join", "lobbyLeave"}}}

\* handleLobbyCreate.  ID.unique() never repeats an id: the new lobby gets the
\* first of `count` ids that no document and no running handler carries.
LobbyCreate(userId, body, count) ==
    /\ IF body.difficulty \notin VALID_DIFFICULTIES
       THEN /\ response' = Reject("create", userId, 400, "Invalid difficulty")
            /\ UNCHANGED lobbies
       ELSE IF body.gameMode \notin VALID_GAME_MODES
       THEN /\ response' = Reject("create", userId, 400, "Invalid game mode")
            /\ UNCHANGED lobbies
       ELSE IF InLobby(userId, lobbies, {})
       THEN /\ response' = Reject("create", userId, 400, "You are already in a lobby. Leave it first.")
            /\ UNCHANGED lobbies
       ELSE \E salt \in Salts :
            LET free == {i \in 1..count :
                            AllLobbyIds[i] \notin DOMAIN lobbies \cup PendingLobbyIds}
                id == AllLobbyIds[CHOOSE i \in free : \A j \in free : i <= j]
                doc == lobbyData(userId, body, salt, now)
            IN  /\ free # {}
                /\ lobbies' = (id :> doc) @@ lobbies
                /\ response' = [op |-> "create", userId |-> userId, ok |-> TRUE, code |-> 200,
                                lobbyId |-> id, players |-> doc.players, status |-> doc.status,
                                maxPlayers |-> doc.maxPlayers, hasPassword |-> doc.password # ""]
    /\ UNCHANGED <<games, inflight, personal, now>>

handleLobbyCreate(userId, body) == LobbyCreate(userId, body, MaxLobbies)

\* A join that checks the roster and the seats before the password.
JoinOutcome_RosterFirst(lobby, elsewhere, userId, password) ==
    LET players == lobby.players
        maxPlayers == IF lobby.maxPlayers = 0 THEN 2 ELSE lobby.maxPlayers
        joined == Append(players, userId)
        newStatus == IF Len(joined) >= maxPlayers THEN LobbyStatus.FULL ELSE LobbyStatus.WAITING
        guest == IF maxPlayers = 2 /\ Len(joined) = 2 THEN [guestId |-> userId] ELSE <<>>
    IN  IF \E i \in DOMAIN players : players[i] = userId
        THEN Reject("join", userId, 400, "You are already in this lobby")
        ELSE IF Len(players) >= maxPlayers
        THEN Reject("join", userId, 400, "Lobby is full")
        ELSE IF lobby.status # LobbyStatus.WAITING
        THEN Reject("join", userId, 400, "Lobby is not accepting players")
        ELSE IF lobby.password # "" /\ Hash(password, lobby.passwordSalt) # lobby.password
        THEN Reject("join", userId, 403, "Incorrect password")
        ELSE IF elsewhere
        THEN Reject("join", userId, 400, "You are already in another lobby")
        ELSE [op |-> "join", userId |-> userId, ok |-> TRUE, code |-> 200,
              update |-> [players |-> joined, status |-> newStatus] @@ guest,
              delete |-> FALSE,
              players |-> joined, status |-> newStatus]

\* A join that computes the new status from the roster it read, before the
\* joiner is appended.
JoinOutcome_StaleCount(lobby, elsewhere, userId, password) ==
    LET players == lobby.players
        maxPlayers == IF lobby.maxPlayers = 0 THEN 2 ELSE lobby.maxPlayers
        joined == Append(players, userId)
        newStatus == IF Len(players) >= maxPlayers THEN LobbyStatus.FULL ELSE LobbyStatus.WAITING
        guest == IF maxPlayers = 2 /\ Len(joined) = 2 THEN [guestId |-> userId] ELSE <<>>
    IN  IF lobby.password # "" /\ Hash(password, lobby.passwordSalt) # lobby.password
        THEN Reject("join", userId, 403, "Incorrect password")
        ELSE IF \E i \in DOMAIN players : players[i] = userId
        THEN Reject("join", userId, 400, "You are already in this lobby")
        ELSE IF Len(players) >= maxPlayers
        THEN Reject("join", userId, 400, "Lobby is full")
        ELSE IF lobby.status # LobbyStatus.WAITING
        THEN Reject("join", userId, 400, "Lobby is not accepting players")
        ELSE IF elsewhere
        THEN Reject("join", userId, 400, "You are already in another lobby")
        ELSE [op |-> "join", userId |-> userId, ok |-> TRUE, code |-> 200,
              update |-> [players |-> joined, status |-> newStatus] @@ guest,
              delete |-> FALSE,
              players |-> joined, status |-> newStatus]

\* What handleLobbyJoin decides from the lobby document it read and from its
\* scan of the other lobbies (elsewhere: the user hosts or is in one).
JoinOutcome(lobby, elsewhere, userId, password) ==
    LET players == lobby.players
        maxPlayers == IF lobby.maxPlayers = 0 THEN 2 ELSE lobby.maxPlayers
        joined == Append(players, userId)
        newStatus == IF Len(joined) >= maxPlayers THEN LobbyStatus.FULL ELSE LobbyStatus.WAITING
        guest == IF maxPlayers = 2 /\ Len(joined) = 2 THEN [guestId |-> userId] ELSE <<>>
    IN  IF lobby.password # "" /\ Hash(password, lobby.passwordSalt) # lobby.password
        THEN Reject("join", userId, 403, "Incorrect password")
        ELSE IF \E i \in DOMAIN players : players[i] = userId
        THEN Reject("join", userId, 400, "You are already in this lobby")
        ELSE IF Len(players) >= maxPlayers
        THEN Reject("join", userId, 400, "Lobby is full")
        ELSE IF lobby.status # LobbyStatus.WAITING
        THEN Reject("join", userId, 400, "Lobby is not accepting players")
        ELSE IF elsewhere
        THEN Reject("join", userId, 400, "You are already in another lobby")
        ELSE [op |-> "join", userId |-> userId, ok |-> TRUE, code |-> 200,
              update |-> [players |-> joined, status |-> newStatus] @@ guest,
              delete |-> FALSE,
              players |-> joined, status |-> newStatus]

\* A leave that hands the lobby to the next player when its host leaves and
\* others remain.
LobbyLeaveOutcome_Migrate(lobby, userId) ==
    LET players == lobby.players
        isHost == lobby.hostId = userId
        isPlayer == \E i \in DOMAIN players : players[i] = userId
        filteredPlayers == SelectSeq(players, LAMBDA q : q # userId)
        guest == IF lobby.guestId = userId THEN [guestId |-> Null] ELSE <<>>
    IN  IF ~isHost /\ ~isPlayer
        THEN Reject("lobbyLeave", userId, 403, "You are not in this lobby")
        ELSE IF isHost /\ Len(filteredPlayers) = 0
        THEN [op |-> "lobbyLeave", userId |-> userId, ok |-> TRUE, code |-> 200,
              update |-> <<>>, delete |-> TRUE, action |-> "deleted"]
        ELSE [op |-> "lobbyLeave", userId |-> userId, ok |-> TRUE, code |-> 200,
              update |-> [players |-> filteredPlayers, status |-> LobbyStatus.WAITING,
                          hostId |-> filteredPlayers[1]] @@ guest,
              delete |-> FALSE, action |-> "left"]

\* What handleLobbyLeave decides from the lobby document it read.
LobbyLeaveOutcome(lobby, userId) ==
    LET players == lobby.players
        isHost == lobby.hostId = userId
        isPlayer == \E i \in DOMAIN players : players[i] = userId
        filteredPlayers == SelectSeq(players, LAMBDA q : q # userId)
        guest == IF lobby.guestId = userId THEN [guestId |-> Null] ELSE <<>>
    IN  IF ~isHost /\ ~isPlayer
        THEN Reject("lobbyLeave", userId, 403, "You are not in this lobby")
        ELSE IF isHost
        THEN [op |-> "lobbyLeave", userId |-> userId, ok |-> TRUE, code |-> 200,
              update |-> <<>>, delete |-> TRUE, action |-> "deleted"]
        ELSE [op |-> "lobbyLeave", userId |-> userId, ok |-> TRUE, code |-> 200,
              update |-> [players |-> filteredPlayers, status |-> LobbyStatus.WAITING] @@ guest,
              delete |-> FALSE, action |-> "left"]

LobbyOutcome(op, lobby, elsewhere, userId, password) ==
    IF op = "join" THEN JoinOutcome(lobby, elsewhere, userId, password)
    ELSE LobbyLeaveOutcome(lobby, userId)

\* A join that appends the joiner to the roster stored at the time of its
\* write instead of writing the roster it computed from its read.
ApplyLobby_AppendStored(p) ==
    LET out == LobbyOutcome(p.op, p.lobby, FALSE, p.userId, p.password)
        update == IF p.op = "join"
                  THEN [players |-> Append(lobbies[p.lobbyId].players, p.userId)] @@ out.update
                  ELSE out.update
    IN  IF p.lobbyId \notin DOMAIN lobbies
        THEN /\ response' = Reject(p.op, p.userId, 500, "Document not found")
             /\ UNCHANGED lobbies
        ELSE /\ lobbies' = IF out.delete THEN Without(lobbies, p.lobbyId)
                           ELSE [lobbies EXCEPT ![p.lobbyId] = Merge(@, update)]
             /\ response' = [f \in DOMAIN out \ {"update", "delete"} |-> out[f]]
                             @@ [lobbyId |-> p.lobbyId]

\* What a lobby handler that passed validation does with the document it
\* read: deleteDocument or updateDocument, then its answer.  Both throw when
\* the lobby is gone, which the handler answers with 500.
ApplyLobby(p) ==
    LET out == LobbyOutcome(p.op, p.lobby, FALSE, p.userId, p.password)
    IN  IF p.lobbyId \notin DOMAIN lobbies
        THEN /\ response' = Reject(p.op, p.userId, 500, "Document not found")
             /\ UNCHANGED lobbies
        ELSE /\ lobbies' = IF out.delete THEN Without(lobbies, p.lobbyId)
                           ELSE [lobbies EXCEPT ![p.lobbyId] = Merge(@, out.update)]
             /\ response' = [f \in DOMAIN out \ {"update", "delete"} |-> out[f]]
                             @@ [lobbyId |-> p.lobbyId]

LobbyRequest(op, userId, lobbyId, password) ==
    [op |-> op, userId |-> userId, lobbyId |-> lobbyId, password |-> password,
     lobby |-> lobbies[lobbyId]]

\* A whole lobby handler, from its read to its answer.
HandleLobby(op, userId, lobbyId, password) ==
    /\ IF lobbyId \notin DOMAIN lobbies
       THEN /\ response' = Reject(op, userId, 500, "Document not found")
            /\ UNCHANGED lobbies
       ELSE LET out == LobbyOutcome(op, lobbies[lobbyId],
                                    InLobby(userId, lobbies, {lobbyId}), userId, password)
            IN  IF ~out.ok
                THEN response' = out /\ UNCHANGED lobbies
                ELSE ApplyLobby(LobbyRequest(op, userId, lobbyId, password))
    /\ UNCHANGED <<games, inflight, personal, now>>

handleLobbyJoin(userId, lobbyId, password) == HandleLobby("join", userId, lobbyId, password)
handleLobbyLeave(userId, lobbyId) == HandleLobby("lobbyLeave", userId, lobbyId, "")

\* The same handlers with their await points: the read and the checks, then,
\* at any later time, the write.
ReadLobby(op, userId, lobbyId, password) ==
    /\ lobbyId \in DOMAIN lobbies
    /\ LobbyOutcome(op, lobbies[lobbyId], InLobby(userId, lobbies, {lobbyId}),
                    userId, password).ok
    /\ Cardinality(inflight) < MaxInFlight
    /\ inflight' = inflight \cup {LobbyRequest(op, userId, lobbyId, password)}
    /\ UNCHANGED <<lobbies, games, response, personal, now>>

WriteLobby(p) ==
    /\ p.op \in {"join", "lobbyLeave"}
    /\ ApplyLobby(p)
    /\ inflight' = inflight \ {p}
    /\ UNCHANGED <<games, personal, now>>

\* The bodies lobby requests carry: the valid ones with every seat count and
\* password, and one with an unknown difficulty and one with an unknown mode.
CreateBodies ==
    [difficulty : {"EASY"}, gameMode : {"classic"},
     maxPlayers : 0..MaxUsers, password : {"", " ", "pw"}]
    \cup {[difficulty |-> "EXTREME", gameMode |-> "classic", maxPlayers |-> 2, password |-> ""],
          [difficulty |-> "EASY", gameMode |-> "duel", maxPlayers |-> 2, password |-> ""]}
JoinPasswords == {"", "pw", "no"}

\* Lobbies from their creation to the start of their game: create, join,
\* leave and start.
InitLobby ==
    /\ lobbies = <<>>
    /\ games = <<>>
    /\ inflight = {}
    /\ response = Reject("none", "", 0, "")
    /\ personal = [u \in Users |-> {}]
    /\ now = 0

NextLobby ==
    \/ \E u \in Users, body \in CreateBodies : handleLobbyCreate(u, body)
    \/ \E u \in Users, l \in LobbyIds, pw \in JoinPasswords : handleLobbyJoin(u, l, pw)
    \/ \E u \in Users, l \in LobbyIds : handleLobbyLeave(u, l)
    \/ \E u \in Users, l \in LobbyIds : GameStart(u, l)

SpecLobby == InitLobby /\ [][NextLobby]_vars

\* The lobby handlers running concurrently on open lobbies of two or of
\* MaxUsers seats: up to MaxInFlight joins and leaves are between their read
\* and their write while others run whole.
OpenBodies ==
    [difficulty : {"EASY"}, gameMode : {"classic"}, maxPlayers : {2, MaxUsers},
     password : {""}]

NextLobbyConc ==
    \/ \E u \in Users, body \in OpenBodies : handleLobbyCreate(u, body)
    \/ \E u \in Users, l \in LobbyIds : handleLobbyJoin(u, l, "")
    \/ \E u \in Users, l \in LobbyIds : handleLobbyLeave(u, l)
    \/ \E u \in Users, l \in LobbyIds : ReadLobby("join", u, l, "")
    \/ \E u \in Users, l \in LobbyIds : ReadLobby("lobbyLeave", u, l, "")
    \/ \E p \in inflight : WriteLobby(p)

SpecLobbyConc == InitLobby /\ [][NextLobbyConc]_vars

\* One two-seat classic lobby from its creation by the first user to the end
\* of its game: join, leave and start on the lobby, and the game handlers on the
\* game the start creates, every handler run whole.
InitSession ==
    /\ lobbies = (LobbyId :> lobbyData(AllUsers[1],
                                       [difficulty |-> "EASY", gameMode |-> GameMode.CLASSIC,
                                        maxPlayers |-> 2, password |-> ""], "", 0))
    /\ games = <<>>
    /\ inflight = {}
    /\ response = Reject("none", "", 0, "")
    /\ personal = [u \in Users |-> {}]
    /\ now = 0

NextSession ==
    \/ \E u \in Users : handleLobbyJoin(u, LobbyId, "")
    \/ \E u \in Users : handleLobbyLeave(u, LobbyId)
    \/ \E u \in Users : GameStart(u, LobbyId)
    \/ \E u \in Users, x \in Coords : handleGameMove(u, x[1], x[2])
    \/ \E u \in Users, x \in Coords : handleGameRaceMove(u, x[1], x[2])
    \/ \E u \in Users : handleGameLeave(u)

SpecSession == InitSession /\ [][NextSession]_vars

\* Largest seat count a create request asks for.
MaxSeats == 6

\* Open lobbies asked for with every seat count from 2 to MaxSeats.
SeatBodies ==
    [difficulty : {"MEDIUM"}, gameMode : {"classic"}, maxPlayers : 2..MaxSeats,
     password : {""}]

NextSeats ==
    \/ \E u \in Users, body \in SeatBodies : handleLobbyCreate(u, body)
    \/ \E u \in Users, l \in LobbyIds : handleLobbyJoin(u, l, "")
    \/ \E u \in Users, l \in LobbyIds : handleLobbyLeave(u, l)

SpecSeats == InitLobby /\ [][NextSeats]_vars

\* ------------------------------------------------------------------ starts
\* Number of game ids ID.unique() can give.
MaxGames == 2

AllGameIds == <<"G1", "G2", "G3">>

\* handleGameStart up to the end of its validation: the lobby it read.
StartRequest(userId, lobbyId) ==
    [op |-> "start", userId |-> userId, lobbyId |-> lobbyId, lobby |-> lobbies[lobbyId]]

StartValid(userId, lobbyId) ==
    /\ lobbyId \in DOMAIN lobbies
    /\ lobbies[lobbyId].hostId = userId
    /\ lobbies[lobbyId].status = LobbyStatus.FULL

\* The rest of handleGameStart, from the lobby it read: the game is created
\* under a new id, then gameId and in_game are written to the lobby, which
\* throws when the lobby is gone.
StartApply(p) ==
    LET lobby == p.lobby
        config == DIFFICULTY_PRESETS[lobby.difficulty]
        free == {i \in 1..MaxGames : AllGameIds[i] \notin DOMAIN games}
        id == AllGameIds[CHOOSE i \in free : \A j \in free : i <= j]
    IN  /\ free # {}
        /\ \E first \in Cells(config.rows, config.cols), draws \in DrawSeqs(config) :
             LET placed == placeMines(createBoard(config), config, first[1], first[2], draws)
                 board == calculateNeighborMines(placed.board)
                 doc == gameData(lobby, p.lobbyId, board, config, now)
             IN  /\ placed.placed = config.mines
                 /\ games' = (id :> doc) @@ games
                 /\ IF p.lobbyId \in DOMAIN lobbies
                    THEN /\ lobbies' = [lobbies EXCEPT ![p.lobbyId] =
                                           Merge(@, [gameId |-> id,
                                                     status |-> LobbyStatus.IN_GAME])]
                         /\ response' = [op |-> "start", userId |-> p.userId, ok |-> TRUE,
                                         code |-> 200, gameId |-> id,
                                         board |-> buildSafeBoard(board, FALSE),
                                         players |-> doc.players,
                                         currentTurn |-> doc.currentTurn,
                                         status |-> doc.status]
                    ELSE /\ lobbies' = lobbies
                         /\ response' = Reject("start", p.userId, 500, "Document not found")

\* The whole handler.
StartWhole(userId, lobbyId) ==
    /\ IF StartValid(userId, lobbyId)
       THEN StartApply(StartRequest(userId, lobbyId))
       ELSE /\ response' =
                  IF lobbyId \notin DOMAIN lobbies
                  THEN Reject("start", userId, 500, "Document not found")
                  ELSE IF lobbies[lobbyId].hostId # userId
                  THEN Reject("start", userId, 403, "Only the host can start the game")
                  ELSE Reject("start", userId, 400, "Lobby is not full")
            /\ UNCHANGED <<lobbies, games>>
    /\ UNCHANGED <<inflight, personal, now>>

\* The handler with its await points: getDocument and the checks, then, at
\* any later time, createDocument and updateDocument.
ReadStart(userId, lobbyId) ==
    /\ StartValid(userId, lobbyId)
    /\ Cardinality(inflight) < MaxInFlight
    /\ inflight' = inflight \cup {StartRequest(userId, lobbyId)}
    /\ UNCHANGED <<lobbies, games, response, personal, now>>

WriteStart(p) ==
    /\ p.op = "start"
    /\ StartApply(p)
    /\ inflight' = inflight \ {p}
    /\ UNCHANGED <<personal, now>>

\* One two-seat lobby from its creation on: joins, leaves and starts, a
\* start possibly between its read and its writes while the others run.
NextStarts ==
    \/ \E u \in Users : handleLobbyJoin(u, LobbyId, "")
    \/ \E u \in Users : handleLobbyLeave(u, LobbyId)
    \/ \E u \in Users : StartWhole(u, LobbyId)
    \/ \E u \in Users : ReadStart(u, LobbyId)
    \/ \E p \in inflight : WriteStart(p)

SpecStarts == InitSession /\ [][NextStarts]_vars

\* ------------------------------------------------------------ open lobbies
\* Number of lobby ids ID.unique() can give when several lobbies are open,
\* and number of users who send requests to them.
MaxOpen == 2
MaxOpenUsers == 2

OpenIds == {AllLobbyIds[i] : i \in 1..MaxOpen}
OpenUsers == {AllUsers[i] : i \in 1..MaxOpenUsers}

TwoSeats == [difficulty |-> "EASY", gameMode |-> GameMode.CLASSIC, maxPlayers |-> 2,
             password |-> ""]

\* Up to MaxOpen two-seat lobbies side by side: create, join, leave and
\* start run whole, and a join may be between its read and its write while
\* the others run.
NextOpen ==
    \/ \E u \in OpenUsers : LobbyCreate(u, TwoSeats, MaxOpen)
    \/ \E u \in OpenUsers, l \in OpenIds : handleLobbyJoin(u, l, "")
    \/ \E u \in OpenUsers, l \in OpenIds : handleLobbyLeave(u, l)
    \/ \E u \in OpenUsers, l \in OpenIds : StartWhole(u, l)
    \/ \E u \in OpenUsers, l \in OpenIds : ReadLobby("join", u, l, "")
    \/ \E p \in inflight : WriteLobby(p)

SpecOpen == InitLobby /\ [][NextOpen]_vars

\* ---------------------------------------------------------- secure variant
\* The key under which the private game_boards document of the game is
\* kept in `games` (in the database it has the id of the game, in its own
\* collection).
BoardDocId == "G1.board"

HasBoardDoc == BoardDocId \in DOMAIN games

\* handleGameStart of the secure variant: the game document carries the
\* safe board, the real board goes to game_boards.
secureGameStart(userId) ==
    /\ LobbyId \in DOMAIN lobbies
    /\ GameId \notin DOMAIN games
    /\ IF ~StartValid(userId, LobbyId)
       THEN /\ response' =
                  IF lobbies[LobbyId].hostId # userId
                  THEN Reject("start", userId, 403, "Only the host can start the game")
                  ELSE Reject("start", userId, 400, "Lobby is not full")
            /\ UNCHANGED <<lobbies, games>>
       ELSE LET lobby == lobbies[LobbyId]
                config == DIFFICULTY_PRESETS[lobby.difficulty]
            IN  \E first \in Cells(config.rows, config.cols), draws \in DrawSeqs(config) :
                LET placed == placeMines(createBoard(config), config, first[1], first[2], draws)
                    board == calculateNeighborMines(placed.board)
                    safeBoard == buildSafeBoard(board, FALSE)
                    doc == gameData(lobby, LobbyId, safeBoard, config, now)
                IN  /\ placed.placed = config.mines
                    /\ games' = (GameId :> doc) @@ (BoardDocId :> [board |-> board]) @@ games
                    /\ lobbies' = [lobbies EXCEPT ![LobbyId] =
                                      Merge(@, [gameId |-> GameId, status |-> LobbyStatus.IN_GAME])]
                    /\ response' = [op |-> "start", userId |-> userId, ok |-> TRUE, code |-> 200,
                                    board |-> safeBoard,
                                    players |-> doc.players, currentTurn |-> doc.currentTurn,
                                    status |-> doc.status]
    /\ UNCHANGED <<inflight, personal, now>>

\* What the secure handleGameMove decides: the checks of the game document
\* and the computation of handleGameMove, on the board of game_boards.
SecureOutcome(game, boardDoc, userId, row, col) ==
    MoveOutcome(Merge(game, [board |-> boardDoc.board]), userId, row, col)

SecureRequest(userId, row, col) ==
    [op |-> "secureMove", userId |-> userId, row |-> row, col |-> col,
     game |-> games[GameId], boardDoc |-> games[BoardDocId], written |-> FALSE]

\* updateDocument(GAME_BOARDS, gameId, {board}): the real board.
SecurePrivateWrite(p, gs) ==
    LET out == SecureOutcome(p.game, p.boardDoc, p.userId, p.row, p.col)
    IN  [gs EXCEPT ![BoardDocId] = [board |-> out.update.board]]

\* updateDocument(GAMES, gameId, {board: safeBoard, ...}) and, when the game
\* is over, the best-effort deletes of the lobby and of the private board.
SecurePublicWrite(p, gs) ==
    LET out == SecureOutcome(p.game, p.boardDoc, p.userId, p.row, p.col)
        update == Merge(out.update,
                        [board |-> buildSafeBoard(out.update.board, out.gameOver)])
        written == [gs EXCEPT ![GameId] = Merge(@, update)]
    IN  IF out.gameOver THEN Without(written, BoardDocId) ELSE written

SecureResponse(p) ==
    LET out == SecureOutcome(p.game, p.boardDoc, p.userId, p.row, p.col)
    IN  [f \in DOMAIN out \ {"update"} |-> out[f]] @@ [row |-> p.row, col |-> p.col]

\* The whole handler, from its reads to its answer.
secureGameMove(userId, row, col) ==
    /\ IF ~(GameId \in DOMAIN games /\ HasBoardDoc)
       THEN /\ response' =
                  IF GameId \in DOMAIN games /\ games[GameId].status # GameStatus.PLAYING
                  THEN Reject("move", userId, 400, "Game is not in playing state")
                  ELSE Reject("move", userId, 500, "Document not found")
            /\ UNCHANGED <<lobbies, games>>
       ELSE LET p == SecureRequest(userId, row, col)
                out == SecureOutcome(p.game, p.boardDoc, userId, row, col)
            IN  IF ~out.ok
                THEN response' = out /\ UNCHANGED <<lobbies, games>>
                ELSE /\ games' = SecurePublicWrite(p, SecurePrivateWrite(p, games))
                     /\ lobbies' = IF out.gameOver THEN Without(lobbies, p.game.lobbyId)
                                   ELSE lobbies
                     /\ response' = SecureResponse(p)
    /\ UNCHANGED <<inflight, personal, now>>

\* The same handler with its await points: the two reads and the checks,
\* then the write of game_boards, then the write of games.
SecureRead(userId, row, col) ==
    /\ GameId \in DOMAIN games /\ HasBoardDoc
    /\ SecureOutcome(games[GameId], games[BoardDocId], userId, row, col).ok
    /\ Cardinality(inflight) < MaxInFlight
    /\ inflight' = inflight \cup {SecureRequest(userId, row, col)}
    /\ UNCHANGED <<lobbies, games, response, personal, now>>

\* updateDocument throws when the private board is gone, which the handler
\* answers with 500.
SecureWriteBoard(p) ==
    /\ p.op = "secureMove" /\ ~p.written
    /\ IF HasBoardDoc
       THEN /\ games' = SecurePrivateWrite(p, games)
            /\ inflight' = (inflight \ {p}) \cup {[p EXCEPT !.written = TRUE]}
            /\ UNCHANGED response
       ELSE /\ response' = Reject("move", p.userId, 500, "Document not found")
            /\ inflight' = inflight \ {p}
            /\ UNCHANGED games
    /\ UNCHANGED <<lobbies, personal, now>>

SecureWriteGame(p) ==
    /\ p.op = "secureMove" /\ p.written
    /\ GameId \in DOMAIN games
    /\ LET out == SecureOutcome(p.game, p.boardDoc, p.userId, p.row, p.col)
       IN  /\ games' = SecurePublicWrite(p, games)
           /\ lobbies' = IF out.gameOver THEN Without(lobbies, p.game.lobbyId) ELSE lobbies
           /\ response' = SecureResponse(p)
    /\ inflight' = inflight \ {p}
    /\ UNCHANGED <<personal, now>>

\* One two-player classic game of the secure variant, a move handler
\* possibly between its reads and its writes, or between its two writes,
\* while others run.
InitSecure ==
    /\ lobbies = (LobbyId :> FullLobby(2, [gameMode |-> GameMode.CLASSIC, difficulty |-> "EASY"]))
    /\ games = <<>>
    /\ inflight = {}
    /\ response = Reject("none", "", 0, "")
    /\ personal = [u \in Users |-> {}]
    /\ now = 0

NextSecure ==
    \/ \E u \in Users : secureGameStart(u)
    \/ \E u \in Users, x \in Coords : secureGameMove(u, x[1], x[2])
    \/ \E u \in Users, x \in Coords : SecureRead(u, x[1], x[2])
    \/ \E p \in inflight : SecureWriteBoard(p)
    \/ \E p \in inflight : SecureWriteGame(p)

SpecSecure == InitSecure /\ [][NextSecure]_vars

\* ------------------------------------------------------------------ sweeps
\* Number of sessions the cleanup finds in the collections.
MaxSwept == 2

\* The board of a game on the smallest preset, first cell in the corner.
SweptBoard ==
    LET config == DIFFICULTY_PRESETS["EASY"]
    IN  calculateNeighborMines(
            placeMines(createBoard(config), config, 0, 0, <<<<0, 1>>>>).board)

\* What is left of a session when the cleanup runs: a lobby still waiting
\* or full, a game being played, a finished game whose lobby was deleted or
\* outlived its best-effort delete, a lobby whose game the host deleted.
SweptKinds ==
    {[kind |-> "none", at |-> 0], [kind |-> "finished", at |-> 0],
     [kind |-> "kept", at |-> 0], [kind |-> "missing", at |-> 0]}
    \cup {[kind |-> k, at |-> t] : k \in {"waiting", "full"}, t \in {0, 1}}
    \cup {[kind |-> "playing", at |-> t] : t \in {-1, 0}}

SweptLobby(i, s) ==
    LET full == FullLobby(2, [gameMode |-> GameMode.CLASSIC, difficulty |-> "EASY"])
    IN  CASE s.kind = "waiting" ->
                 Merge(full, [status |-> LobbyStatus.WAITING, maxPlayers |-> 3,
                              createdAt |-> s.at])
          [] s.kind = "full" -> Merge(full, [createdAt |-> s.at])
          [] OTHER -> Merge(full, [status |-> LobbyStatus.IN_GAME, gameId |-> AllGameIds[i]])

SweptGame(i, s) ==
    LET full == FullLobby(2, [gameMode |-> GameMode.CLASSIC, difficulty |-> "EASY"])
        game == gameData(full, AllLobbyIds[i], SweptBoard, DIFFICULTY_PRESETS["EASY"], s.at)
    IN  IF s.kind = "playing" THEN game
        ELSE Merge(game, [status |-> GameStatus.FINISHED, winnerId |-> AllUsers[1]])

InitSweep ==
    /\ \E s \in [1..MaxSwept -> SweptKinds] :
          /\ lobbies = [l \in {AllLobbyIds[i] : i \in {j \in 1..MaxSwept :
                                   s[j].kind \in {"waiting", "full", "playing", "kept", "missing"}}}
                          |-> LET i == CHOOSE j \in 1..MaxSwept : AllLobbyIds[j] = l
                              IN  SweptLobby(i, s[i])]
          /\ games = [g \in {AllGameIds[i] : i \in {j \in 1..MaxSwept :
                                   s[j].kind \in {"playing", "kept", "finished"}}}
                        |-> LET i == CHOOSE j \in 1..MaxSwept : AllGameIds[j] = g
                            IN  SweptGame(i, s[i])]
    /\ inflight = {}
    /\ response = Reject("none", "", 0, "")
    /\ personal = [u \in Users |-> {}]
    /\ now = 0

\* The clock and the cleanup, no player sending a request.
NextSweep ==
    \/ Tick
    \/ handleCleanup
    \/ \E p \in inflight : handleCleanupWrite(p)

SpecSweep == InitSweep /\ [][NextSweep]_vars

\* The clock advances and the scheduled cleanup keeps being executed to
\* its end.
FairSweep ==
    /\ SpecSweep
    /\ WF_vars(Tick)
    /\ WF_vars(handleCleanup)
    /\ WF_vars(\E p \in inflight : handleCleanupWrite(p))

\* ---------------------------------------------------------- board generation
\* Largest side of the boards mines are placed on.
MaxMinedSide == 2

\* The configurations with 0 <= mines < rows * cols up to a side.
GridConfigs(side) ==
    {c \in [rows : 1..side, cols : 1..side, mines : 0..(side * side - 1)] :
        c.mines < c.rows * c.cols}

\* A call of placeMines on a fresh board for every configuration, safe
\* cell and stream of random cells.
InitMines ==
    /\ \E config \in GridConfigs(MaxMinedSide) :
       \E first \in Cells(config.rows, config.cols), draws \in DrawSeqs(config) :
          inflight = {[op |-> "placeMines", config |-> config,
                       firstRow |-> first[1], firstCol |-> first[2], draws |-> draws]}
    /\ lobbies = <<>>
    /\ games = <<>>
    /\ response = Reject("none", "", 0, "")
    /\ personal = [u \in Users |-> {}]
    /\ now = 0

\* placeMines returns once its loop has placed config.mines mines.
placeMinesReturn(p) ==
    /\ p.op = "placeMines"
    /\ LET placed == placeMines(createBoard(p.config), p.config, p.firstRow, p.firstCol, p.draws)
       IN  /\ placed.placed = p.config.mines
           /\ response' = [op |-> "placeMines", userId |-> "", ok |-> TRUE, code |-> 200,
                           config |-> p.config, firstRow |-> p.firstRow,
                           firstCol |-> p.firstCol, board |-> placed.board]
    /\ inflight' = inflight \ {p}
    /\ UNCHANGED <<lobbies, games, personal, now>>

NextMines == \E p \in inflight : placeMinesReturn(p)

SpecMines == InitMines /\ [][NextMines]_vars

\* Largest side of the boards neighbour counts are computed on.
MaxSide == 3

\* A call of calculateNeighborMines on a board as placeMines leaves it:
\* any cells mined but not all, every count still 0.
InitNeighbors ==
    /\ \E rows \in 1..MaxSide, cols \in 1..MaxSide :
       \E mined \in SUBSET Cells(rows, cols) \ {Cells(rows, cols)} :
          inflight = {[op |-> "calculateNeighborMines",
                       board |-> [x \in Cells(rows, cols) |->
                                     Merge(createBoard([rows |-> rows, cols |-> cols])[x],
                                           [isMine |-> x \in mined])]]}
    /\ lobbies = <<>>
    /\ games = <<>>
    /\ response = Reject("none", "", 0, "")
    /\ personal = [u \in Users |-> {}]
    /\ now = 0

calculateNeighborMinesReturn(p) ==
    /\ p.op = "calculateNeighborMines"
    /\ response' = [op |-> "calculateNeighborMines", userId |-> "", ok |-> TRUE, code |-> 200,
                    board |-> calculateNeighborMines(p.board)]
    /\ inflight' = inflight \ {p}
    /\ UNCHANGED <<lobbies, games, personal, now>>

NextNeighbors == \E p \in inflight : calculateNeighborMinesReturn(p)

SpecNeighbors == InitNeighbors /\ [][NextNeighbors]_vars

\* ------------------------------------------------------------------ reveals
\* Largest boards a reveal is compared on.
CascadeRows == 2
CascadeCols == 3

\* A game of the host and one guest on a given board, in a given mode.
GameOn(board, mode) ==
    gameData(FullLobby(2, [gameMode |-> mode, difficulty |-> "EASY"]), LobbyId, board,
             [rows |-> NumRows(board), cols |-> NumCols(board),
              mines |-> Cardinality({x \in DOMAIN board : board[x].isMine})], 0)

\* The same reveal asked of both modes: a mine layout, the cells revealed
\* before, the score held before and a target among the cells not revealed.
InitReveal ==
    /\ \E rows \in 1..CascadeRows, cols \in 1..CascadeCols :
       \E mined \in SUBSET Cells(rows, cols) \ {Cells(rows, cols)} :
       \E target \in Cells(rows, cols), score \in {1, 4} :
       \E revealed \in SUBSET (Cells(rows, cols) \ {target}) :
          inflight = {[op |-> "reveal",
                       board |-> calculateNeighborMines(
                                    [x \in Cells(rows, cols) |->
                                        Merge(createBoard([rows |-> rows, cols |-> cols])[x],
                                              [isMine |-> x \in mined])]),
                       revealed |-> revealed, score |-> score,
                       row |-> target[1], col |-> target[2]]}
    /\ lobbies = <<>>
    /\ games = <<>>
    /\ response = Reject("none", "", 0, "")
    /\ personal = [u \in Users |-> {}]
    /\ now = 0

\* The host's move on the classic game whose board shows the cells revealed
\* before, and the host's race move on the race game whose hostBoard holds
\* them; with them, what the two cascade routines return from the target.
revealReturn(p) ==
    /\ p.op = "reveal"
    /\ LET host == AllUsers[1]
           shown == [x \in DOMAIN p.board |->
                        IF x \in p.revealed
                        THEN Merge(p.board[x], [state |-> CellState.REVEALED])
                        ELSE p.board[x]]
           classic == GameOn(shown, GameMode.CLASSIC)
           race == GameOn(p.board, GameMode.RACE)
           move == MoveOutcome(
                       Merge(classic, [players |-> [classic.players EXCEPT ![1].score = p.score],
                                       hostScore |-> p.score]),
                       host, p.row, p.col)
           raceMove == RaceOutcome(Merge(race, [hostBoard |-> p.revealed, hostScore |-> p.score]),
                                   host, p.row, p.col)
           target == <<p.row, p.col>>
       IN  response' = [op |-> "reveal", userId |-> host, ok |-> TRUE, code |-> 200,
                        call |-> p, move |-> move, raceMove |-> raceMove,
                        revealEmptyCells |->
                            revealEmptyCells(
                                [shown EXCEPT ![target].state = CellState.REVEALED],
                                p.row, p.col),
                        raceRevealEmptyCells |->
                            raceRevealEmptyCells(p.board, p.revealed \cup {target},
                                                 p.row, p.col)]
    /\ inflight' = inflight \ {p}
    /\ UNCHANGED <<lobbies, games, personal, now>>

NextReveal == \E p \in inflight : revealReturn(p)

SpecReveal == InitReveal /\ [][NextReveal]_vars

\* ---------------------------------------------------------------- properties
HasGame == GameId \in DOMAIN games

\* The ids on the roster of a game.
Roster(game) == {game.players[i].id : i \in DOMAIN game.players}

\* The score the roster entry of a player carries.
PlayerScore(game, id) ==
    LET i == CHOOSE i \in DOMAIN game.players : game.players[i].id = id
    IN  game.players[i].score

\* The cells of a board that are not mines, and those shown revealed.
SafeCells(board) == {x \in DOMAIN board : ~board[x].isMine}
RevealedCells(board) == {x \in DOMAIN board : board[x].state = "revealed"}

\* Two distinct cells that touch, diagonals included.
Adjacent(x, y) ==
    /\ x # y
    /\ x[1] - y[1] \in {-1, 0, 1}
    /\ x[2] - y[2] \in {-1, 0, 1}

\* The points of a set of cells: 1 for a cell without neighbouring mines,
\* the neighbour count otherwise.
RECURSIVE PointsOver(_, _)
PointsOver(board, S) ==
    IF S = {} THEN 0
    ELSE LET x == CHOOSE x \in S : TRUE
         IN  (IF board[x].neighborMines = 0 THEN 1 ELSE board[x].neighborMines)
             + PointsOver(board, S \ {x})

\* The step is a handler of the given kind answering with success.
Answered(op) == HasGame /\ response'.op = op /\ response'.ok

\* The cell the request of the step named.
Target == <<response'.row, response'.col>>

\* C1: while the game is playing, the board view a start or a race move
\* answers with shows isMine = FALSE and neighborMines = 0 for every cell the
\* caller has not revealed.
C1_ViewHidesUnrevealed ==
    /\ (response.op = "start" /\ response.ok) =>
           \A x \in DOMAIN response.board :
               ~response.board[x].isMine /\ response.board[x].neighborMines = 0
    /\ (response.op = "raceMove" /\ response.ok /\ response.status = GameStatus.PLAYING) =>
           \A x \in DOMAIN response.board \ personal[response.userId] :
               ~response.board[x].isMine /\ response.board[x].neighborMines = 0

\* C2: once the stored status of a game is finished, no step makes it
\* anything else and no step changes its winnerId.
C2_FinishedIsTerminal ==
    [][(HasGame /\ games[GameId].status = GameStatus.FINISHED) =>
           /\ games'[GameId].status = GameStatus.FINISHED
           /\ games'[GameId].winnerId = games[GameId].winnerId]_vars

\* The step is a classic move request of a user who does not hold the turn.
OutOfTurnMove ==
    /\ HasGame
    /\ games[GameId].gameMode = GameMode.CLASSIC
    /\ response'.op = "move"
    /\ response'.userId # games[GameId].currentTurn

\* C3 as stated: a move of any user other than currentTurn is answered with
\* 403 and changes nothing of the game.
C3_OutOfTurnAlwaysForbidden ==
    [][OutOfTurnMove => (response'.code = 403 /\ games' = games)]_vars

\* C3: in a game that is playing, a move of any user other than currentTurn
\* is answered with 403 "Not your turn" and changes nothing of the game or
\* of the lobby.
C3_OutOfTurnForbiddenWhilePlaying ==
    [][(OutOfTurnMove /\ games[GameId].status = GameStatus.PLAYING) =>
           /\ ~response'.ok
           /\ response'.code = 403
           /\ response'.error = "Not your turn"
           /\ games' = games
           /\ lobbies' = lobbies]_vars

\* A rostered player who does not hold the turn of a playing game was just
\* answered 403.
C3_Witness ==
    /\ HasGame
    /\ games[GameId].status = GameStatus.PLAYING
    /\ response.op = "move"
    /\ response.code = 403
    /\ response.userId \in Roster(games[GameId])
    /\ response.userId # games[GameId].currentTurn

\* C4: what a handler's write stored stays stored: no step hides a cell the
\* stored board shows revealed, and no step removes a cell from a stored
\* revealed set.
C4_NoLostUpdate ==
    [][HasGame =>
           /\ RevealedCells(games[GameId].board) \subseteq RevealedCells(games'[GameId].board)
           /\ games[GameId].hostBoard \subseteq games'[GameId].hostBoard
           /\ games[GameId].guestBoard \subseteq games'[GameId].guestBoard]_vars

\* C5: a successful race move of a player leaves the revealed set, the score
\* and the finished flag of every other player on the roster as they were.
C5_RaceIndependence ==
    [][Answered("raceMove") =>
           \A q \in Roster(games[GameId]) \ {response'.userId} :
               /\ RevealedOf(games'[GameId], q) = RevealedOf(games[GameId], q)
               /\ RaceScoreOf(games'[GameId], q) = RaceScoreOf(games[GameId], q)
               /\ FinishedOf(games'[GameId], q) = FinishedOf(games[GameId], q)]_vars

\* C6: a successful move on a hidden cell without neighbouring mines reveals
\* more than the target, reveals no mine, and every cell it reveals that
\* touches a still hidden safe cell has neighbouring mines.
C6_CascadeCorrect ==
    [][(/\ Answered("move")
        /\ ~games[GameId].board[Target].isMine
        /\ games[GameId].board[Target].neighborMines = 0) =>
           LET after == games'[GameId].board
               new == RevealedCells(after) \ RevealedCells(games[GameId].board)
           IN  /\ Target \in new
               /\ new # {Target}
               /\ \A x \in new :
                      /\ ~after[x].isMine
                      /\ (\E y \in SafeCells(after) \ RevealedCells(after) : Adjacent(x, y))
                             => after[x].neighborMines > 0]_vars

\* C7: a successful race move after which the caller's revealed set covers
\* every safe cell stores status finished with the caller as winnerId, and a
\* race move on a finished game is answered 400 "Game is not in playing
\* state" and changes nothing.
C7_RaceCompletion ==
    [][/\ (/\ Answered("raceMove")
           /\ SafeCells(games[GameId].board) \subseteq response'.revealed) =>
              /\ games'[GameId].status = GameStatus.FINISHED
              /\ games'[GameId].winnerId = response'.userId
       /\ (/\ HasGame
           /\ games[GameId].status = GameStatus.FINISHED
           /\ response'.op = "raceMove") =>
              /\ ~response'.ok
              /\ response'.code = 400
              /\ response'.error = "Game is not in playing state"
              /\ games' = games]_vars

\* A race game finished by a winner whose revealed set covers the safe
\* cells, and another rostered player's race move just answered 400.
C7_Witness ==
    /\ HasGame
    /\ games[GameId].gameMode = GameMode.RACE
    /\ games[GameId].status = GameStatus.FINISHED
    /\ games[GameId].winnerId \in Roster(games[GameId])
    /\ SafeCells(games[GameId].board) \subseteq RevealedOf(games[GameId], games[GameId].winnerId)
    /\ response.op = "raceMove"
    /\ ~response.ok
    /\ response.code = 400
    /\ response.userId \in Roster(games[GameId]) \ {games[GameId].winnerId}

\* C8: a successful move on a mine leaves the mover with max(0, score - 3),
\* adds one to minesRevealed and gives the turn to the id after the mover in
\* turnOrder, the first id after the last.
C8_MineHit ==
    [][(Answered("move") /\ games[GameId].board[Target].isMine) =>
           LET g == games[GameId]
               u == response'.userId
               i == CHOOSE i \in DOMAIN g.turnOrder : g.turnOrder[i] = u
               old == PlayerScore(g, u)
           IN  /\ PlayerScore(games'[GameId], u) = IF old - 3 > 0 THEN old - 3 ELSE 0
               /\ games'[GameId].minesRevealed = g.minesRevealed + 1
               /\ games'[GameId].currentTurn = g.turnOrder[(i % Len(g.turnOrder)) + 1]]_vars

\* The last player of the turn order just hit a mine, keeps a positive
\* score, and the turn is back with the first.
C8_Witness ==
    /\ HasGame
    /\ response.op = "move"
    /\ response.ok
    /\ games[GameId].board[<<response.row, response.col>>].isMine
    /\ response.userId = games[GameId].turnOrder[Len(games[GameId].turnOrder)]
    /\ games[GameId].currentTurn = games[GameId].turnOrder[1]
    /\ PlayerScore(games[GameId], response.userId) > 0
    /\ games[GameId].minesRevealed = 2

\* C9: a successful move on a safe cell adds to the mover's score the points
\* of every cell the move revealed, leaves the other scores alone and leaves
\* the turn with the mover.
C9_SafeHit ==
    [][(Answered("move") /\ ~games[GameId].board[Target].isMine) =>
           LET g == games[GameId]
               u == response'.userId
               new == RevealedCells(games'[GameId].board) \ RevealedCells(g.board)
           IN  /\ Target \in new
               /\ PlayerScore(games'[GameId], u) = PlayerScore(g, u) + PointsOver(g.board, new)
               /\ \A q \in Roster(g) \ {u} : PlayerScore(games'[GameId], q) = PlayerScore(g, q)
               /\ Roster(games'[GameId]) = Roster(g)
               /\ games'[GameId].currentTurn = u]_vars

\* A move on a cell without neighbouring mines was just answered, it
\* revealed a neighbour with neighbouring mines too, and the mover holds the
\* turn.
C9_Witness ==
    /\ HasGame
    /\ response.op = "move"
    /\ response.ok
    /\ ~games[GameId].board[<<response.row, response.col>>].isMine
    /\ games[GameId].board[<<response.row, response.col>>].neighborMines = 0
    /\ \E x \in RevealedCells(games[GameId].board) :
           /\ Adjacent(x, <<response.row, response.col>>)
           /\ games[GameId].board[x].neighborMines > 0
    /\ games[GameId].currentTurn = response.userId
    /\ PlayerScore(games[GameId], response.userId) > 1

\* C10: after a successful move the game is finished exactly when every
\* safe cell is revealed; then winnerId is the one player with the highest
\* score, or "draw" when several have it; otherwise the game is playing and
\* winnerId is null.
C10_GameOver ==
    [][Answered("move") =>
           LET g == games'[GameId]
               over == SafeCells(g.board) \subseteq RevealedCells(g.board)
               leaders == {p \in Roster(g) : \A q \in Roster(g) : PlayerScore(g, q) <= PlayerScore(g, p)}
           IN  /\ (g.status = GameStatus.FINISHED) <=> over
               /\ over => \/ leaders = {g.winnerId}
                          \/ Cardinality(leaders) > 1 /\ g.winnerId = "draw"
               /\ ~over => g.status = GameStatus.PLAYING /\ g.winnerId = Null]_vars

\* A move just finished a game whose highest score is shared.
C10_Witness ==
    /\ HasGame
    /\ response.op = "move"
    /\ response.ok
    /\ games[GameId].status = GameStatus.FINISHED
    /\ games[GameId].winnerId = "draw"
    /\ SafeCells(games[GameId].board) \subseteq RevealedCells(games[GameId].board)

\* The step changes no lobby and no game document.
NothingPersisted == lobbies' = lobbies /\ games' = games

\* The step answers with a rejection carrying the given code and message.
Rejected(code, error) ==
    /\ ~response'.ok
    /\ response'.code = code
    /\ response'.error = error

\* The cell is shown revealed on the shared board of the classic game.
RevealedOnBoard(x) ==
    /\ HasGame
    /\ games[GameId].gameMode = GameMode.CLASSIC
    /\ x \in DOMAIN games[GameId].board
    /\ games[GameId].board[x].state = CellState.REVEALED

\* The cell is in the revealed set the race game keeps for the player.
RevealedByCaller(u, x) ==
    /\ HasGame
    /\ games[GameId].gameMode = GameMode.RACE
    /\ PlayerIndex(games[GameId].players, u) # 0
    /\ x \in (IF u = games[GameId].hostId THEN games[GameId].hostBoard
              ELSE games[GameId].guestBoard)

\* C11: a classic move on a cell shown revealed on the shared board, and a
\* race move on a cell already in the caller's own revealed set, are
\* rejected and change no document (board, revealed sets, scores and turn
\* stay as they were); while the game is playing and, in classic mode, the
\* caller holds the turn, the rejection is the conflict "already revealed".
C11_RevealedCellRejected ==
    [][\A u \in Users, x \in Coords :
          /\ (RevealedOnBoard(x) /\ handleGameMove(u, x[1], x[2])) =>
                 /\ ~response'.ok
                 /\ NothingPersisted
                 /\ (games[GameId].status = GameStatus.PLAYING /\ games[GameId].currentTurn = u)
                       => Rejected(400, "Cell is already revealed")
          /\ (RevealedByCaller(u, x) /\ handleGameRaceMove(u, x[1], x[2])) =>
                 /\ ~response'.ok
                 /\ NothingPersisted
                 /\ games[GameId].status = GameStatus.PLAYING
                       => Rejected(400, "Cell already revealed")]_vars

\* A playing game just refused a reveal of a cell that was already revealed.
C11_Witness ==
    /\ HasGame
    /\ games[GameId].status = GameStatus.PLAYING
    /\ ~response.ok
    /\ \/ /\ response.op = "move"
          /\ response.error = "Cell is already revealed"
          /\ RevealedCells(games[GameId].board) # {}
       \/ /\ response.op = "raceMove"
          /\ response.error = "Cell already revealed"
          /\ \E x \in DOMAIN games[GameId].board : RevealedByCaller(response.userId, x)

\* The requests validation can reject.
Validated == {"join", "lobbyLeave", "start", "move", "raceMove", "leave"}

\* C12: a join, lobby leave, start, move, race move or game leave that is
\* answered with a rejection leaves every lobby and every game document
\* exactly as it was before the request.
C12_RejectionPersistsNothing ==
    [][(response'.op \in Validated /\ ~response'.ok) => NothingPersisted]_vars

\* A playing game, its lobby still there, just refused a move made out of
\* turn on a hidden cell.
C12_Witness ==
    /\ HasGame
    /\ LobbyId \in DOMAIN lobbies
    /\ games[GameId].status = GameStatus.PLAYING
    /\ response.op = "move"
    /\ ~response.ok
    /\ response.code = 403
    /\ RevealedCells(games[GameId].board) # DOMAIN games[GameId].board

\* The board the variant of the API that keeps the authoritative board in a
\* private collection writes into the shared game document at a race move:
\* the safe board it built for the mover.
SharedBoardAfterRaceMove == response.board

\* C13: while a race game is playing, the board a race move leaves in the
\* shared game document shows, to every player of the game, true isMine and
\* neighborMines only on cells of that player's own revealed set: a cell the
\* player has not revealed carries isMine = FALSE and neighborMines = 0.
C13_SharedBoardShowsOwnCellsOnly ==
    (/\ HasGame
     /\ games[GameId].gameMode = GameMode.RACE
     /\ games[GameId].status = GameStatus.PLAYING
     /\ response.op = "raceMove"
     /\ response.ok)
    => \A q \in Roster(games[GameId]), x \in DOMAIN games[GameId].board :
           x \notin personal[q] =>
               /\ ~SharedBoardAfterRaceMove[x].isMine
               /\ SharedBoardAfterRaceMove[x].neighborMines = 0

\* The client's getGame: a direct read of the game document, which is
\* created with read permission for every signed-in user.
getGame(gameId) == games[gameId]

\* C14: while a game is playing, the game document players can read holds
\* no authoritative data of unrevealed cells: every cell of its board that
\* is not revealed carries isMine = FALSE and neighborMines = 0.
C14_ReadableBoardHidesUnrevealed ==
    (HasGame /\ games[GameId].status = GameStatus.PLAYING)
    => \A x \in DOMAIN getGame(GameId).board :
           getGame(GameId).board[x].state # CellState.REVEALED =>
               /\ ~getGame(GameId).board[x].isMine
               /\ getGame(GameId).board[x].neighborMines = 0

\* C15: once the status of a lobby is IN_GAME, no join, leave or start sets
\* it back to WAITING or FULL: after every step the lobby is still IN_GAME
\* or is deleted.
C15_InGameIsFinal ==
    [][\A l \in DOMAIN lobbies :
          lobbies[l].status = LobbyStatus.IN_GAME =>
              \/ l \notin DOMAIN lobbies'
              \/ lobbies'[l].status = LobbyStatus.IN_GAME]_vars

\* The lobby stores a password hash.
HasHash(l) == l \in DOMAIN lobbies /\ lobbies[l].password # ""

\* The password is not the one the stored hash was made from.
Mismatch(l, pw) == Hash(pw, lobbies[l].passwordSalt) # lobbies[l].password

OnRoster(lobby, u) == \E i \in DOMAIN lobby.players : lobby.players[i] = u

\* The messages of the three conflicts a join can meet.
JoinConflicts ==
    {"You are already in this lobby", "Lobby is full", "Lobby is not accepting players"}

\* C17: a join that passes the password check is rejected as a conflict,
\* and changes nothing, when the caller is already on the roster, the roster
\* is full or the lobby is not WAITING; a join that succeeds appends the
\* caller at the end of the roster and leaves the lobby FULL exactly when
\* the roster length then equals maxPlayers, WAITING otherwise.
C17_JoinConflictsAndAppend ==
    [][response'.op = "join" =>
          \A u \in Users, l \in LobbyIds, pw \in JoinPasswords :
             (/\ l \in DOMAIN lobbies
              /\ ~(HasHash(l) /\ Mismatch(l, pw))
              /\ handleLobbyJoin(u, l, pw)) =>
                 LET lobby == lobbies[l]
                 IN  /\ (\/ OnRoster(lobby, u)
                         \/ Len(lobby.players) >= lobby.maxPlayers
                         \/ lobby.status # LobbyStatus.WAITING) =>
                            /\ ~response'.ok
                            /\ response'.code = 400
                            /\ response'.error \in JoinConflicts
                            /\ NothingPersisted
                     /\ response'.ok =>
                            /\ l \in DOMAIN lobbies'
                            /\ lobbies'[l].players = Append(lobby.players, u)
                            /\ lobbies'[l].status =
                                  IF Len(lobbies'[l].players) = lobby.maxPlayers
                                  THEN LobbyStatus.FULL ELSE LobbyStatus.WAITING
                            /\ games' = games]_vars

\* A join just took the last seat of a lobby of more than two seats: the
\* joiner is last on the roster and the lobby is full.
C17_Witness ==
    /\ response.op = "join"
    /\ response.ok
    /\ \E l \in DOMAIN lobbies :
           /\ lobbies[l].maxPlayers > 2
           /\ Len(lobbies[l].players) = lobbies[l].maxPlayers
           /\ lobbies[l].players[Len(lobbies[l].players)] = response.userId
           /\ lobbies[l].status = LobbyStatus.FULL

\* C18: in every reachable state, whatever the interleaving of concurrent
\* join and leave handlers, the roster of each lobby is no longer than its
\* maxPlayers, holds no player id twice and has the host as its first entry.
C18_RosterInvariant ==
    \A l \in DOMAIN lobbies :
        LET players == lobbies[l].players
        IN  /\ Len(players) <= lobbies[l].maxPlayers
            /\ \A i, j \in DOMAIN players : players[i] = players[j] => i = j
            /\ Len(players) >= 1
            /\ players[1] = lobbies[l].hostId

\* A join that read a roster with a free seat is about to write, and the
\* lobby has been filled by another join since its read.
C18_Witness ==
    \E p \in inflight :
        /\ p.op = "join"
        /\ p.lobbyId \in DOMAIN lobbies
        /\ Len(p.lobby.players) < p.lobby.maxPlayers
        /\ Len(lobbies[p.lobbyId].players) = lobbies[p.lobbyId].maxPlayers
        /\ lobbies[p.lobbyId].status = LobbyStatus.FULL

\* C19: a lobby leave by the host deletes the lobby, whoever else is on its
\* roster; a leave by another member removes exactly that player from the
\* roster, keeps the others in their order and sets the status to WAITING;
\* a leave by a user who is neither is rejected as forbidden and changes
\* nothing.
C19_LobbyLeave ==
    [][response'.op = "lobbyLeave" =>
          \A u \in Users, l \in LobbyIds :
             (l \in DOMAIN lobbies /\ handleLobbyLeave(u, l)) =>
                 LET lobby == lobbies[l]
                 IN  IF lobby.hostId = u
                     THEN /\ response'.ok
                          /\ lobbies' = Without(lobbies, l)
                          /\ games' = games
                     ELSE IF OnRoster(lobby, u)
                     THEN /\ response'.ok
                          /\ l \in DOMAIN lobbies'
                          /\ lobbies'[l].players = SelectSeq(lobby.players, LAMBDA q : q # u)
                          /\ Len(lobbies'[l].players) = Len(lobby.players) - 1
                          /\ lobbies'[l].status = LobbyStatus.WAITING
                          /\ lobbies'[l].hostId = lobby.hostId
                          /\ games' = games
                     ELSE /\ Rejected(403, "You are not in this lobby")
                          /\ NothingPersisted]_vars

\* A member just left a lobby of more than two seats in which another
\* member stays with the host: the lobby is waiting with both of them.
C19_Witness ==
    /\ response.op = "lobbyLeave"
    /\ response.ok
    /\ response.action = "left"
    /\ \E l \in DOMAIN lobbies :
           /\ Len(lobbies[l].players) = 2
           /\ lobbies[l].players[1] = lobbies[l].hostId
           /\ lobbies[l].players[2] # response.userId
           /\ lobbies[l].maxPlayers > 2
           /\ lobbies[l].status = LobbyStatus.WAITING

\* C20: a start by a user who is not the host of the lobby is rejected as
\* forbidden; a start by the host of a lobby that is not FULL is rejected
\* as "Lobby is not full"; a rejected start creates no game and leaves the
\* lobby unchanged; a start by the host of a full lobby creates the game
\* and marks the lobby IN_GAME.
C20_StartGuards ==
    [][response'.op = "start" =>
          \A u \in Users, l \in LobbyIds :
             (l \in DOMAIN lobbies /\ GameStart(u, l)) =>
                 /\ IF lobbies[l].hostId # u
                    THEN Rejected(403, "Only the host can start the game")
                    ELSE IF lobbies[l].status # LobbyStatus.FULL
                    THEN Rejected(400, "Lobby is not full")
                    ELSE /\ response'.ok
                         /\ GameId \in DOMAIN games'
                         /\ lobbies'[l].status = LobbyStatus.IN_GAME
                         /\ lobbies'[l].gameId = GameId
                 /\ ~response'.ok => NothingPersisted /\ DOMAIN games' = DOMAIN games]_vars

\* The host of a two-seat lobby in which only the host sits has just been
\* refused the start: the lobby is waiting and there is no game.
C20_Witness ==
    /\ response.op = "start"
    /\ ~response.ok
    /\ response.error = "Lobby is not full"
    /\ games = <<>>
    /\ \E l \in DOMAIN lobbies :
           /\ lobbies[l].hostId = response.userId
           /\ lobbies[l].maxPlayers = 2
           /\ lobbies[l].players = <<response.userId>>
           /\ lobbies[l].status = LobbyStatus.WAITING
\* C21: a successful start creates a playing game whose roster is the lobby
\* roster with every score 0, whose turn order is the host followed by the
\* other players in their join order, whose current turn is the host in
\* classic mode and empty in race mode, and in which no cell is revealed;
\* and it marks the lobby IN_GAME with the id of that game.
C21_StartCreatesGame ==
    [][(response'.op = "start" /\ response'.ok) =>
          \E l \in DOMAIN lobbies :
             LET lobby == lobbies[l]
                 g == games'[GameId]
                 others == SelectSeq(lobby.players, LAMBDA q : q # lobby.hostId)
             IN  /\ GameId \notin DOMAIN games
                 /\ GameId \in DOMAIN games'
                 /\ response'.userId = lobby.hostId
                 /\ g.status = GameStatus.PLAYING
                 /\ [i \in DOMAIN g.players |-> g.players[i].id] = lobby.players
                 /\ \A i \in DOMAIN g.players : g.players[i].score = 0
                 /\ g.hostScore = 0 /\ g.guestScore = 0
                 /\ g.turnOrder = <<lobby.hostId>> \o others
                 /\ g.currentTurn = IF lobby.gameMode = GameMode.CLASSIC
                                    THEN lobby.hostId ELSE ""
                 /\ RevealedCells(g.board) = {}
                 /\ g.hostBoard = {} /\ g.guestBoard = {}
                 /\ g.winnerId = Null
                 /\ lobbies'[l].status = LobbyStatus.IN_GAME
                 /\ lobbies'[l].gameId = GameId
                 /\ g.lobbyId = l]_vars

\* A race game of more than two players was just started and nobody has
\* moved.
C21_Witness ==
    /\ HasGame
    /\ response.op = "start"
    /\ response.ok
    /\ games[GameId].gameMode = GameMode.RACE
    /\ Len(games[GameId].players) > 2
    /\ games[GameId].currentTurn = ""
    /\ Len(games[GameId].turnOrder) = Len(games[GameId].players)
\* The score the game currently keeps for a player: the roster entry in
\* classic mode, the host or guest score field in race mode.
CurrentScore(g, q) ==
    IF g.gameMode = GameMode.RACE THEN RaceScoreOf(g, q) ELSE PlayerScore(g, q)

\* C22: a game leave by a roster member of a playing game finishes the game
\* with a winner that is not the leaver: the one remaining player when one
\* remains, otherwise the remaining player whose current score is strictly
\* the highest, or "draw" when several remaining players share the highest.
C22_LeaveWinner ==
    [][(HasGame /\ response'.op = "leave" /\ response'.ok) =>
          LET g == games[GameId]
              rest == Roster(g) \ {response'.userId}
              leaders == {p \in rest : \A q \in rest : CurrentScore(g, q) <= CurrentScore(g, p)}
              w == games'[GameId].winnerId
          IN  /\ games'[GameId].status = GameStatus.FINISHED
              /\ w # response'.userId
              /\ Cardinality(rest) = 1 => {w} = rest
              /\ Cardinality(rest) > 1 =>
                     IF Cardinality(leaders) = 1 THEN {w} = leaders ELSE w = "draw"]_vars


\* The cleanup that ends in this step, if one does.
SweepEnds(p) == p \in inflight /\ p.op = "cleanup" /\ p \notin inflight'

\* C23: when a cleanup sweep completes, every game that was playing and
\* older than the game threshold when the sweep started is finished with
\* winnerId "timeout" and its lobby is gone, and every playing game not
\* older than the threshold is unchanged.
C23_ReaperGameTimeout ==
    [][\A p \in inflight : SweepEnds(p) =>
          \A g \in DOMAIN games : games[g].status = GameStatus.PLAYING =>
              IF p.now - games[g].startTime > STALE_GAME_MS
              THEN /\ g \in DOMAIN games'
                   /\ games'[g].status = GameStatus.FINISHED
                   /\ games'[g].winnerId = "timeout"
                   /\ games[g].lobbyId \notin DOMAIN lobbies'
              ELSE g \in DOMAIN games' /\ games'[g] = games[g]]_vars

\* A cleanup starts in this step: its lobby pass is done and its listing of
\* the active games taken.
SweepStarts == \E p \in inflight' : p.op = "cleanup" /\ p \notin inflight

Idle(l) == lobbies[l].status \in {LobbyStatus.WAITING, LobbyStatus.FULL}

Kept(l) == l \in DOMAIN lobbies' /\ lobbies'[l] = lobbies[l]

\* C24: a cleanup sweep deletes every waiting or full lobby whose age
\* exceeds the lobby threshold and leaves every waiting or full lobby that
\* is not older than the threshold untouched.
C24_ReaperLobbySweep ==
    [][/\ SweepStarts =>
             \A l \in DOMAIN lobbies : Idle(l) =>
                 IF now - lobbies[l].createdAt > STALE_LOBBY_MS
                 THEN l \notin DOMAIN lobbies'
                 ELSE Kept(l)
       /\ \A p \in inflight : SweepEnds(p) =>
             \A l \in DOMAIN lobbies : Idle(l) => Kept(l)]_vars

\* The game an in_game lobby is linked to is there and being played.
LinkedPlaying(ls, gs, l) ==
    /\ ls[l].gameId # Null
    /\ ls[l].gameId \in DOMAIN gs
    /\ gs[ls[l].gameId].status = GameStatus.PLAYING

\* C25: when a cleanup sweep completes with no concurrent action, no lobby
\* marked in_game remains whose game id is empty, whose game is missing or
\* whose game is finished, the games this sweep finished included; the
\* in_game lobbies whose game is still being played are kept.
C25_OrphanCleanup ==
    [][\A p \in inflight : SweepEnds(p) =>
          /\ \A l \in DOMAIN lobbies' :
                 lobbies'[l].status = LobbyStatus.IN_GAME => LinkedPlaying(lobbies', games', l)
          /\ \A l \in DOMAIN lobbies :
                 (lobbies[l].status = LobbyStatus.IN_GAME /\ LinkedPlaying(lobbies, games', l))
                     => Kept(l)]_vars

Mines(board) == {x \in DOMAIN board : board[x].isMine}

\* C26: every board createBoard and placeMines produce for a configuration
\* with 0 <= mines < rows * cols has exactly `mines` mined cells, and the
\* designated safe cell is not one of them, whatever cells were drawn.
C26_MineCount ==
    response.op = "placeMines" =>
        /\ DOMAIN response.board = Cells(response.config.rows, response.config.cols)
        /\ Cardinality(Mines(response.board)) = response.config.mines
        /\ ~response.board[<<response.firstRow, response.firstCol>>].isMine

\* A board filled with mines up to the safe cell.
C26_Witness ==
    /\ response.op = "placeMines"
    /\ response.config.mines = response.config.rows * response.config.cols - 1
    /\ Cardinality(Mines(response.board)) >= 2

\* The cells at most one row and one column away from a cell, itself excluded.
Moore(board, x) ==
    {y \in DOMAIN board : y # x /\ y[1] - x[1] \in -1..1 /\ y[2] - x[2] \in -1..1}

\* C27: on every generated board the neighborMines of every cell that is
\* not a mine is the number of mines among its in-bounds Moore neighbours,
\* of which there are at most 8, so it lies between 0 and 8.
C27_NeighborMines ==
    response.op = "calculateNeighborMines" =>
        \A x \in DOMAIN response.board : ~response.board[x].isMine =>
            /\ response.board[x].neighborMines
                  = Cardinality(Moore(response.board, x) \cap Mines(response.board))
            /\ Cardinality(Moore(response.board, x)) <= 8
            /\ response.board[x].neighborMines \in 0..8

\* A cell with all 8 neighbours mined next to corner and edge cells.
C27_Witness ==
    /\ response.op = "calculateNeighborMines"
    /\ \E x \in DOMAIN response.board :
          ~response.board[x].isMine /\ response.board[x].neighborMines = 8

\* C28: a lobby created with a requested maxPlayers from 2 to 6 has that
\* many seats.
C28_SeatsAsRequested ==
    [][response'.op = "create" /\ response'.ok =>
          \A u \in Users, body \in SeatBodies :
              (body.maxPlayers \in 2..6 /\ handleLobbyCreate(u, body))
                  => lobbies'[response'.lobbyId].maxPlayers = body.maxPlayers]_vars

\* C29: every game that reaches finished is eventually deleted by the
\* engine, together with its lobby, as long as the cleanup keeps running.
C29_FinishedGameCollected ==
    \A i \in 1..MaxSwept :
        (AllGameIds[i] \in DOMAIN games /\ games[AllGameIds[i]].status = GameStatus.FINISHED)
            ~> (AllGameIds[i] \notin DOMAIN games /\ AllLobbyIds[i] \notin DOMAIN lobbies)

\* No game is being played and no lobby is left.
AllReaped ==
    /\ \A g \in DOMAIN games : games[g].status = GameStatus.FINISHED
    /\ DOMAIN lobbies = {}

\* C30: with the clock advancing and the cleanup run again and again, and
\* no player sending a request, every game being played eventually becomes
\* finished and every lobby is eventually deleted.
C30_ReaperLiveness == <>[]AllReaped

\* The cleanup has force-finished a game and no lobby is left.
C30_Witness ==
    /\ AllReaped
    /\ \E g \in DOMAIN games : games[g].winnerId = "timeout"

\* A set of revealed cells a game can have reached: every safe neighbour of
\* a revealed cell without neighbouring mines is revealed, and a safe cell
\* is still to be revealed.
Playable(board, revealed) ==
    /\ \A x \in revealed : (~board[x].isMine /\ board[x].neighborMines = 0)
           => \A y \in DOMAIN board : (Adjacent(x, y) /\ ~board[y].isMine) => y \in revealed
    /\ \E x \in DOMAIN board : ~board[x].isMine /\ x \notin revealed

\* C31: for the same mine layout, the same cells revealed before and the
\* same target, a race move adds to the player's revealed set exactly the
\* cells a classic move marks revealed on the shared board, and changes the
\* score by the same amount.
C31_RaceRevealIsClassicReveal ==
    (response.op = "reveal" /\ Playable(response.call.board, response.call.revealed)) =>
        /\ response.move.ok /\ response.raceMove.ok
        /\ response.raceMove.update.hostBoard \ response.call.revealed
              = RevealedCells(response.move.update.board) \ response.call.revealed
        /\ response.raceMove.update.hostScore = response.move.update.players[1].score

\* C32: in every reachable state of a classic or race game every persisted
\* score, on the roster and in hostScore and guestScore, is at least 0.
C32_ScoresNeverNegative ==
    HasGame =>
        /\ \A i \in DOMAIN games[GameId].players : games[GameId].players[i].score >= 0
        /\ games[GameId].hostScore >= 0
        /\ games[GameId].guestScore >= 0

\* A player holding fewer than 3 points has just hit the mine.
C32_Witness ==
    /\ HasGame
    /\ response.op \in {"move", "raceMove"} /\ response.ok
    /\ games[GameId].board[<<response.row, response.col>>].isMine
    /\ games[GameId].status = GameStatus.PLAYING
    /\ IF games[GameId].gameMode = GameMode.RACE
       THEN games[GameId].hostScore = 0 /\ response.userId = games[GameId].hostId
       ELSE PlayerScore(games[GameId], response.userId) = 0

NoRepeat(seq) == \A i, j \in DOMAIN seq : i # j => seq[i] # seq[j]

\* C33: on every board, whatever the layout and the cells revealed before,
\* revealEmptyCells and raceRevealEmptyCells come to an end, process no
\* cell twice and return no coordinate twice.
C33_CascadeOncePerCell ==
    response.op = "reveal" =>
        /\ NoRepeat(response.revealEmptyCells.processed)
        /\ NoRepeat(response.revealEmptyCells.revealed)
        /\ NoRepeat(response.raceRevealEmptyCells.processed)
        /\ NoRepeat(response.raceRevealEmptyCells.newRevealed)

\* Both routines have gone through several cells from a cell without
\* neighbouring mines.
C33_Witness ==
    /\ response.op = "reveal"
    /\ Len(response.revealEmptyCells.processed) >= 3
    /\ Len(response.raceRevealEmptyCells.processed) >= 4
    /\ Len(response.raceRevealEmptyCells.newRevealed) >= 4
    /\ response.call.revealed # {}

\* C34: whatever joins, leaves and starts are requested, one after another
\* or interleaved, no two game documents carry the same lobbyId.
C34_OneGamePerLobby ==
    \A g, h \in DOMAIN games : g # h => games[g].lobbyId # games[h].lobbyId

\* C35: a join answered with success is persisted.  A player is on a roster
\* through a successful join (or as the host) and leaves it through a
\* leave, so every step that answers a join with success must keep on the
\* stored roster every player who was on it, and put the joiner on it.
C35_SuccessfulJoinPersisted ==
    [][(response'.op = "join" /\ response'.ok /\ lobbies' # lobbies) =>
          \A l \in DOMAIN lobbies \cap DOMAIN lobbies' :
              lobbies'[l] # lobbies[l] =>
                  /\ OnRoster(lobbies'[l], response'.userId)
                  /\ \A q \in Users : OnRoster(lobbies[l], q) => OnRoster(lobbies'[l], q)]_vars

\* C36: in the secure variant, whenever no classic move handler is
\* mid-flight, a cell is revealed on the public board of the game exactly
\* when it is revealed on the private board, and the roster scores account
\* for the revealed cells: they add up to the points of the revealed safe
\* cells when no mine was hit, and to no more than that otherwise.
C36_PublicMatchesPrivate ==
    (inflight = {} /\ HasGame /\ HasBoardDoc) =>
        LET public == games[GameId].board
            private == games[BoardDocId].board
            total == ScoreOf(games[GameId].players, AllUsers[1])
                     + ScoreOf(games[GameId].players, AllUsers[2])
            points == PointsOver(private, RevealedCells(private) \cap SafeCells(private))
        IN  /\ RevealedCells(public) = RevealedCells(private)
            /\ total <= points
            /\ games[GameId].minesRevealed = 0 => total = points

\* C37: in a two-player race game a race move that is written stores, for
\* its caller, the revealed set and the score its handler computed, and
\* leaves the revealed set and the score of the other player as they were,
\* whatever the other player's handlers wrote since this handler's read.
C37_RaceMovesDoNotClobber ==
    [][(games' # games /\ response'.op = "raceMove" /\ response'.ok) =>
          LET before == games[GameId]
              after == games'[GameId]
              u == response'.userId
          IN  /\ RevealedOf(after, u) = response'.revealed
              /\ RaceScoreOf(after, u) = response'.score
              /\ \A v \in {before.hostId, before.guestId} \ {u} :
                     /\ RevealedOf(after, v) = RevealedOf(before, v)
                     /\ RaceScoreOf(after, v) = RaceScoreOf(before, v)]_vars

\* The host's race move was answered from a read that saw the game being
\* played, and written after the guest's finishing move: both handlers are
\* done and each player's cells and score are in the document.
C37_Witness ==
    /\ HasGame /\ inflight = {}
    /\ games[GameId].gameMode = GameMode.RACE
    /\ response.op = "raceMove" /\ response.ok
    /\ response.userId = games[GameId].hostId
    /\ response.status = GameStatus.PLAYING
    /\ games[GameId].status = GameStatus.FINISHED
    /\ games[GameId].guestFinished
    /\ games[GameId].winnerId = games[GameId].guestId
    /\ games[GameId].hostBoard = response.revealed
    /\ games[GameId].guestBoard # {}

\* The scores of a roster added up.
RECURSIVE TotalScore(_)
TotalScore(players) ==
    IF players = <<>> THEN 0 ELSE Head(players).score + TotalScore(Tail(players))

\* C38: in every state of a classic game the scores of all players add up
\* to no more than the points of the revealed safe cells (1 for a cell with
\* no neighbouring mine, its neighbour count otherwise), and minesRevealed
\* is the number of revealed mine cells, which is at most totalMines.
C38_PointsAwardedOnce ==
    (HasGame /\ games[GameId].gameMode = GameMode.CLASSIC) =>
        LET game == games[GameId]
            shown == RevealedCells(game.board)
        IN  /\ TotalScore(game.players) <= PointsOver(game.board, shown \cap SafeCells(game.board))
            /\ game.minesRevealed = Cardinality(shown \ SafeCells(game.board))
            /\ game.minesRevealed <= game.totalMines

\* A classic game in which a mine was hit after points were scored: a
\* penalty was taken, points remain, and a handler is about to write to it.
C38_Witness ==
    /\ HasGame /\ games[GameId].gameMode = GameMode.CLASSIC
    /\ games[GameId].minesRevealed >= 1
    /\ TotalScore(games[GameId].players) >= 1
    /\ TotalScore(games[GameId].players)
          < PointsOver(games[GameId].board,
                       RevealedCells(games[GameId].board) \cap SafeCells(games[GameId].board))
    /\ inflight # {}

\* The number of revealed cells of a board.
RevealedCount(board) == Cardinality(RevealedCells(board))

\* A step in which a classic move was carried out and answered with success.
SuccessfulMove ==
    /\ response'.op = "move" /\ response'.ok
    /\ games' # games \/ response' # response

\* C39: every successful move of a classic game leaves strictly more cells
\* revealed in the stored game than there were before it, which is what
\* bounds the successful moves of a game by its number of cells and brings a
\* game whose players keep moving to FINISHED.
C39_MoveRevealsMore ==
    [][SuccessfulMove =>
          RevealedCount(games'[GameId].board) > RevealedCount(games[GameId].board)]_vars

\* The waiting and full lobbies a user hosts or is on the roster of.
OpenLobbiesOf(u) ==
    {l \in DOMAIN lobbies :
        /\ lobbies[l].status \in {LobbyStatus.WAITING, LobbyStatus.FULL}
        /\ lobbies[l].hostId = u \/ OnRoster(lobbies[l], u)}

\* C40: at any time a user is the host or on the roster of at most one
\* lobby that is waiting or full.
C40_OneOpenLobbyPerUser ==
    \A u \in OpenUsers : Cardinality(OpenLobbiesOf(u)) <= 1

=============================================================================
